---- MODULE Spec2Model ----
(***************************************************************************)
(* LeuitCSS backup collection subsystem: the immutable artifact store      *)
(* (app/storage.py), the backup collector (app/collector.py) and the       *)
(* vendor adapters (app/adapters.py), with the compiled vendor table of    *)
(* config.py.                                                              *)
(*                                                                         *)
(* Text is a sequence of code points, file content a sequence of bytes.    *)
(* An optional value (Python None) is the empty sequence; a message is a   *)
(* sequence of words.                                                      *)
(***************************************************************************)
EXTENDS Integers, Sequences, FiniteSets, TLC

VARIABLES
    clock,      \* wall clock, in half seconds (datetime.utcnow())
    fs,         \* the storage tree: backup directory -> its three files
    sv,         \* per thread: the save_backup call in progress
    nSave,      \* save_backup calls started so far
    saveLog,    \* history: the save_backup calls that have returned
    nTamper,    \* stored files rewritten or removed from outside so far
    bd,         \* per thread: the stack of backup_device frames (the retry recurses)
    history,    \* the backup_history table (row times left out)
    devstatus,  \* per device: last_backup_status
    calls,      \* history: per top-level backup_device call, what its attempts did
                \* and the storage tree at its start and at its return
    inbox,      \* FTP ingestion root: per device, the startrun.dat in its drop directory,
                \* with the attempt whose command made the device upload it
    uploads,    \* uploads that devices were told to make and have not made yet
    env,        \* LEUITCSS_FTP_PASSWORD of the process environment, once it has been read
    ingest,     \* the FTP server's handler: completed uploads it has not handled yet,
                \* the files in the drop folders, and what it did with each upload
    db_session, \* _collector_instance.db_session: the session the singleton collector
                \* was last given (sessions are named by the call they were made for)
    poll        \* one _poll_for_file call, with the time it reads from time.time()

storeVars == <<fs, sv, nSave, saveLog, nTamper>>
relayVars == <<inbox, uploads, env, ingest>>
collVars == <<bd, history, devstatus, calls, relayVars, poll, db_session>>
vars == <<clock, storeVars, collVars>>

(***************************************************************************)
(* Bounds                                                                  *)
(***************************************************************************)
MaxSaves == 2       \* save_backup calls made directly on the store
MaxTicks == 2       \* last clock tick while the store is exercised directly
MaxCollectTicks == 1 \* last clock tick while the collector runs
MaxTampers == 1     \* rewrites / removals of stored files from outside

Threads == {"w1", "w2"}

None == <<>>

(***************************************************************************)
(* Text and bytes                                                          *)
(***************************************************************************)
CR == 13
LF == 10
\* code points used: 'a' = 97, U+00E9 = 233 (two bytes in UTF-8),
\* U+D800 = 55296 (a lone surrogate)

\* config_output values handed to the store
Contents == {<<97>>, <<CR>>, <<97, CR, LF>>, <<233>>, <<55296>>}

IsSurrogate(c) == c >= 55296 /\ c <= 57343

\* str.encode(): UnicodeEncodeError on a lone surrogate
Utf8Encodable(s) == \A i \in 1..Len(s) : ~IsSurrogate(s[i])

Utf8EncodeChar(c) ==
    IF c < 128 THEN <<c>>
    ELSE IF c < 2048 THEN <<192 + (c \div 64), 128 + (c % 64)>>
    ELSE <<224 + (c \div 4096), 128 + ((c \div 64) % 64), 128 + (c % 64)>>

RECURSIVE Utf8Encode(_)
Utf8Encode(s) ==
    IF s = <<>> THEN <<>> ELSE Utf8EncodeChar(Head(s)) \o Utf8Encode(Tail(s))

IsCont(b) == b >= 128 /\ b < 192

\* length of the well-formed UTF-8 sequence at the head of b, 0 if ill-formed
Utf8SeqLen(b) ==
    LET b0 == Head(b)
    IN  IF b0 < 128 THEN 1
        ELSE IF b0 >= 194 /\ b0 < 224 /\ Len(b) >= 2 /\ IsCont(b[2]) THEN 2
        ELSE IF b0 >= 224 /\ b0 < 240 /\ Len(b) >= 3 /\ IsCont(b[2]) /\ IsCont(b[3])
                /\ (b0 - 224) * 4096 + (b[2] - 128) * 64 >= 2048
                /\ ~IsSurrogate((b0 - 224) * 4096 + (b[2] - 128) * 64 + (b[3] - 128))
             THEN 3
        ELSE 0

Utf8DecodeHead(b) ==
    LET n == Utf8SeqLen(b)
    IN  IF n = 1 THEN b[1]
        ELSE IF n = 2 THEN (b[1] - 192) * 64 + (b[2] - 128)
        ELSE (b[1] - 224) * 4096 + (b[2] - 128) * 64 + (b[3] - 128)

RECURSIVE Utf8Valid(_)
Utf8Valid(b) ==
    \/ b = <<>>
    \/ /\ Utf8SeqLen(b) > 0
       /\ Utf8Valid(SubSeq(b, Utf8SeqLen(b) + 1, Len(b)))

\* bytes.decode('utf-8') of well-formed input
RECURSIVE Utf8Decode(_)
Utf8Decode(b) ==
    IF b = <<>> \/ Utf8SeqLen(b) = 0 THEN <<>>
    ELSE <<Utf8DecodeHead(b)>> \o Utf8Decode(SubSeq(b, Utf8SeqLen(b) + 1, Len(b)))

\* bytes.decode('utf-8', errors='replace'): every maximal ill-formed run of
\* bytes becomes one U+FFFD
REPLACEMENT == 65533

IllFormedLen(b) ==
    LET b0 == Head(b)
    IN  IF /\ b0 >= 224 /\ b0 < 240 /\ Len(b) >= 2 /\ IsCont(b[2])
           /\ (b0 = 224 => b[2] >= 160)
           /\ (b0 = 237 => b[2] < 160)
           /\ Utf8SeqLen(b) = 0
        THEN 2
        ELSE 1

RECURSIVE Utf8DecodeReplace(_)
Utf8DecodeReplace(b) ==
    IF b = <<>> THEN <<>>
    ELSE IF Utf8SeqLen(b) > 0
    THEN <<Utf8DecodeHead(b)>> \o Utf8DecodeReplace(SubSeq(b, Utf8SeqLen(b) + 1, Len(b)))
    ELSE <<REPLACEMENT>> \o Utf8DecodeReplace(SubSeq(b, IllFormedLen(b) + 1, Len(b)))

\* os.linesep on the deployment platform (Linux, systemd)
LineSep == <<LF>>

\* text-mode write, newline=None: every '\n' becomes os.linesep
RECURSIVE WriteNewlines(_)
WriteNewlines(s) ==
    IF s = <<>> THEN <<>>
    ELSE (IF Head(s) = LF THEN LineSep ELSE <<Head(s)>>) \o WriteNewlines(Tail(s))

\* text-mode read, newline=None (universal newlines): '\r\n' and '\r' become '\n'
RECURSIVE ReadNewlines(_)
ReadNewlines(s) ==
    IF s = <<>> THEN <<>>
    ELSE IF Head(s) = CR
         THEN IF Len(s) >= 2 /\ s[2] = LF
              THEN <<LF>> \o ReadNewlines(SubSeq(s, 3, Len(s)))
              ELSE <<LF>> \o ReadNewlines(Tail(s))
         ELSE <<Head(s)>> \o ReadNewlines(Tail(s))

\* open(path, 'w', encoding='utf-8').write(text): the bytes that reach the file
TextFileBytes(text) == Utf8Encode(WriteNewlines(text))

\* hashlib.sha256(bytes).hexdigest(): collision-free at this size
Sha256(bytes) == [sha256 |-> bytes]

(***************************************************************************)
(* StorageManager                                                          *)
(***************************************************************************)
\* result['error'] of save_backup: the fixed text, or str(e) of what was raised
ImmutabilityError ==
    <<"Backup", "directory", "already", "exists", "(immutability", "violation)">>
EncodeError ==
    <<"'utf-8'", "codec", "can't", "encode", "character:", "surrogates", "not", "allowed">>
OsError == <<"[Errno", "28]", "No", "space", "left", "on", "device">>
PermissionError == <<"[Errno", "13]", "Permission", "denied">>

\* timestamp.strftime('%Y%m%d_%H%M%S'): the sub-second part is dropped
TimestampStr(ts) == ToString(ts \div 2)

\* _get_backup_path: base / vendor / str(device_id) / timestamp_str
BackupPath(vendor, device_id, ts) == <<vendor, ToString(device_id), TimestampStr(ts)>>

ConfigFilename(ext) == <<"config", ext>>

\* str(relative_dir / name)
RelPath(dir, name) == [dir |-> dir, name |-> name]

EmptyDir == [config |-> None, metadata |-> None, checksum |-> None]

\* _create_metadata
CreateMetadata(a, checksum, file_name) ==
    [vendor          |-> a.vendor,
     device_id       |-> a.device_id,
     device_ip       |-> a.device_ip,
     connection_type |-> a.connection_type,
     backup_command  |-> a.backup_command,
     timestamp       |-> a.timestamp,
     status          |-> "success",
     checksum_sha256 |-> checksum,
     file_name       |-> file_name,
     leuitcss_version |-> "1.0.0"]

NoResult ==
    [success |-> FALSE, file_path |-> None, checksum |-> None, file_size |-> None,
     error |-> None]

IdleSave == [pc |-> "idle"]

SaveArgs(vendor, device_id, device_ip, connection_type, backup_command, config_output, output_extension) ==
    [vendor |-> vendor, device_id |-> device_id, device_ip |-> device_ip,
     connection_type |-> connection_type, backup_command |-> backup_command,
     config_output |-> config_output, output_extension |-> output_extension]

\* entry of save_backup: result initialised, timestamp = datetime.utcnow()
SaveEntry(call, args, now) ==
    [pc |-> "mkdir", call |-> call, args |-> args @@ [timestamp |-> now],
     result |-> NoResult]

SaveDir(s) == BackupPath(s.args.vendor, s.args.device_id, s.args.timestamp)

\* Path.mkdir(parents=True, exist_ok=False): FileExistsError when the directory exists
MkdirRaisesMutant(dir, tree) == FALSE
MkdirRaises(dir, tree) == dir \in DOMAIN tree

\* except FileExistsError: the error text is set, the tree is left as it is
OnFileExistsMutant(tree, dir) == [k \in DOMAIN tree \ {dir} |-> tree[k]]
OnFileExists(tree, dir) == tree

\* open(path, 'w') on an existing read-only file (mode 0o444)
OpenDenied(file) == file # None /\ file[1].ro

PutDir(tree, dir, d) == [k \in DOMAIN tree \cup {dir} |-> IF k = dir THEN d ELSE tree[k]]

\* the call returns: its result is logged
SaveReturns(t, result) ==
    /\ sv' = [sv EXCEPT ![t] = [@ EXCEPT !.pc = "ret", !.result = result]]
    /\ saveLog' = saveLog \cup {[call |-> sv[t].call, dir |-> SaveDir(sv[t]),
                                  args |-> sv[t].args, result |-> result]}

\* except FileExistsError / except Exception as e: the error text goes into
\* the result, which is returned
SaveFailsMutant(t, error) ==
    /\ sv' = [sv EXCEPT ![t] = [@ EXCEPT !.pc = "raised"]]
    /\ UNCHANGED saveLog
SaveFails(t, error) == SaveReturns(t, [NoResult EXCEPT !.error = error])

\* backup_dir.mkdir(parents=True, exist_ok=False)
SaveMkdir(t) ==
    /\ sv[t].pc = "mkdir"
    /\ UNCHANGED <<clock, nSave, nTamper, collVars>>
    /\ IF MkdirRaises(SaveDir(sv[t]), fs)
       THEN /\ SaveFails(t, ImmutabilityError)
            /\ fs' = OnFileExists(fs, SaveDir(sv[t]))
       ELSE /\ fs' = PutDir(fs, SaveDir(sv[t]),
                            IF SaveDir(sv[t]) \in DOMAIN fs THEN fs[SaveDir(sv[t])]
                            ELSE EmptyDir)
            /\ sv' = [sv EXCEPT ![t].pc = "config"]
            /\ UNCHANGED saveLog

\* checksum = sha256(config_output.encode()); write config{ext}
SaveWriteConfig(t, faults) ==
    /\ sv[t].pc = "config"
    /\ UNCHANGED <<clock, nSave, nTamper, collVars>>
    /\ LET dir == SaveDir(sv[t])
           a   == sv[t].args
       IN  IF ~Utf8Encodable(a.config_output)
           THEN SaveFails(t, EncodeError) /\ UNCHANGED fs
           ELSE IF OpenDenied(fs[dir].config)
           THEN SaveFails(t, PermissionError) /\ UNCHANGED fs
           ELSE \/ "config" \in faults /\ SaveFails(t, OsError) /\ UNCHANGED fs
                \/ /\ fs' = [fs EXCEPT ![dir].config =
                                <<[name |-> ConfigFilename(a.output_extension),
                                   data |-> TextFileBytes(a.config_output),
                                   ro   |-> FALSE]>>]
                   /\ sv' = [sv EXCEPT ![t].pc = "metadata"]
                   /\ UNCHANGED saveLog

\* json.dump(metadata) into metadata.json
SaveWriteMetadata(t, faults) ==
    /\ sv[t].pc = "metadata"
    /\ UNCHANGED <<clock, nSave, nTamper, collVars>>
    /\ LET dir == SaveDir(sv[t])
           a   == sv[t].args
       IN  IF OpenDenied(fs[dir].metadata)
           THEN SaveFails(t, PermissionError) /\ UNCHANGED fs
           ELSE \/ "metadata" \in faults /\ SaveFails(t, OsError) /\ UNCHANGED fs
                \/ /\ fs' = [fs EXCEPT ![dir].metadata =
                                <<[data |-> CreateMetadata(a,
                                              Sha256(Utf8Encode(a.config_output)),
                                              ConfigFilename(a.output_extension)),
                                   ro   |-> FALSE]>>]
                   /\ sv' = [sv EXCEPT ![t].pc = "checksum"]
                   /\ UNCHANGED saveLog

FileNotFoundError == <<"[Errno", "2]", "No", "such", "file", "or", "directory">>

\* os.chmod(path, 0o444) on each of the three files, in order, on a directory
\* whose checksum.sha256 was just written; raises when a file is gone
ChmodAll(d) ==
    IF d.config = None THEN [dir |-> d, raised |-> TRUE]
    ELSE IF d.metadata = None
    THEN [dir |-> [d EXCEPT !.config = <<[@[1] EXCEPT !.ro = TRUE]>>], raised |-> TRUE]
    ELSE [dir |-> [config   |-> <<[d.config[1] EXCEPT !.ro = TRUE]>>,
                   metadata |-> <<[d.metadata[1] EXCEPT !.ro = TRUE]>>,
                   checksum |-> <<[d.checksum[1] EXCEPT !.ro = TRUE]>>],
          raised |-> FALSE]

\* write checksum.sha256, chmod 0o444 the three files, fill in the result
SaveWriteChecksum(t, faults) ==
    /\ sv[t].pc = "checksum"
    /\ UNCHANGED <<clock, nSave, nTamper, collVars>>
    /\ LET dir      == SaveDir(sv[t])
           a        == sv[t].args
           checksum == Sha256(Utf8Encode(a.config_output))
           name     == ConfigFilename(a.output_extension)
           written  == [fs[dir] EXCEPT !.checksum =
                           <<[data |-> [digest |-> checksum, file_name |-> name],
                              ro |-> FALSE]>>]
       IN  IF OpenDenied(fs[dir].checksum)
           THEN SaveFails(t, PermissionError) /\ UNCHANGED fs
           ELSE \/ "checksum" \in faults /\ SaveFails(t, OsError) /\ UNCHANGED fs
                \/ /\ fs' = [fs EXCEPT ![dir] = ChmodAll(written).dir]
                   /\ IF ChmodAll(written).raised
                      THEN SaveFails(t, FileNotFoundError)
                      ELSE SaveReturns(t,
                             [success   |-> TRUE,
                              file_path |-> <<RelPath(dir, name)>>,
                              checksum  |-> <<checksum>>,
                              file_size |-> <<Len(Utf8Encode(a.config_output))>>,
                              error     |-> None])

\* the writes of save_backup that the disk may refuse (OSError)
AllWrites == {"config", "metadata", "checksum"}
FirstWrite == {"config"}

SaveStep(t, faults) ==
    \/ SaveMkdir(t)
    \/ SaveWriteConfig(t, faults)
    \/ SaveWriteMetadata(t, faults)
    \/ SaveWriteChecksum(t, faults)

\* get_backup(file_path): None when the file is missing, else its text
GetBackupResult(tree, path) ==
    IF \/ path.dir \notin DOMAIN tree
       \/ tree[path.dir].config = None
       \/ tree[path.dir].config[1].name # path.name
    THEN [kind |-> "none", text |-> <<>>]
    ELSE IF ~Utf8Valid(tree[path.dir].config[1].data)
    THEN [kind |-> "raise", text |-> <<>>]
    ELSE [kind |-> "text",
          text |-> ReadNewlines(Utf8Decode(tree[path.dir].config[1].data))]

\* verify_checksum(file_path)
VerifyChecksumResultMutant(tree, path) ==
    /\ path.dir \in DOMAIN tree
    /\ tree[path.dir].config # None
    /\ tree[path.dir].checksum # None
VerifyChecksumResult(tree, path) ==
    IF \/ path.dir \notin DOMAIN tree
       \/ tree[path.dir].config = None
       \/ tree[path.dir].config[1].name # path.name
       \/ tree[path.dir].checksum = None
    THEN FALSE
    ELSE tree[path.dir].checksum[1].data.digest = Sha256(tree[path.dir].config[1].data)

\* get_metadata(file_path): None when metadata.json is missing
GetMetadataResult(tree, path) ==
    IF path.dir \notin DOMAIN tree \/ tree[path.dir].metadata = None
    THEN None
    ELSE <<tree[path.dir].metadata[1].data>>

\* list_backups(): the metadata of every directory that has a metadata.json,
\* with its backup_dir (the order of the list is left out)
ListBackupsResult(tree) ==
    {[backup_dir |-> dir, metadata |-> tree[dir].metadata[1].data] :
        dir \in {k \in DOMAIN tree : tree[k].metadata # None}}

\* get_storage_stats(): the backups counted, in all and by vendor (sizes are
\* left out)
GetStorageStatsResult(tree) ==
    LET found == {k \in DOMAIN tree : tree[k].metadata # None}
        vendors == {tree[k].metadata[1].data.vendor : k \in found}
    IN  [total_backups |-> Cardinality(found),
         backups_by_vendor |->
            [v \in vendors |->
               Cardinality({k \in found : tree[k].metadata[1].data.vendor = v})]]

ReadOps == {"get_backup", "get_metadata", "verify_checksum", "list_backups",
            "get_storage_stats"}

\* what a read operation of the StorageManager returns
ReadResult(op, tree, path) ==
    CASE op = "get_backup" -> GetBackupResult(tree, path)
      [] op = "get_metadata" -> GetMetadataResult(tree, path)
      [] op = "verify_checksum" -> VerifyChecksumResult(tree, path)
      [] op = "list_backups" -> ListBackupsResult(tree)
      [] op = "get_storage_stats" -> GetStorageStatsResult(tree)

(***************************************************************************)
(* config.py: the compiled vendor table                                    *)
(***************************************************************************)
MAX_RETRY == 1

VENDOR_COMMANDS ==
    [v \in {"mikrotik", "cisco", "huawei", "zte", "juniper", "generic",
            "generic-saved", "generic-startup"} |->
       CASE v = "mikrotik" ->
              [connection_types |-> {"ssh"},
               backup_command |-> <<"/export">>, output_extension |-> ".rsc"]
         [] v = "cisco" ->
              [connection_types |-> {"ssh", "telnet"},
               backup_command |-> <<"show", "running-config">>,
               output_extension |-> ".txt"]
         [] v = "huawei" ->
              [connection_types |-> {"ssh", "telnet"},
               backup_command |-> <<"display", "current-configuration">>,
               output_extension |-> ".txt"]
         [] v = "zte" ->
              [connection_types |-> {"ssh", "telnet"},
               backup_command |-> <<"show", "running-config">>,
               output_extension |-> ".txt"]
         [] v = "juniper" ->
              [connection_types |-> {"ssh"},
               backup_command |-> <<"show", "configuration", "|", "display", "set">>,
               output_extension |-> ".txt"]
         [] v = "generic" ->
              [connection_types |-> {"ssh", "telnet"},
               backup_command |-> <<"show", "running-config">>,
               output_extension |-> ".txt"]
         [] v = "generic-saved" ->
              [connection_types |-> {"ssh", "telnet"},
               backup_command |-> <<"show", "saved-config">>,
               output_extension |-> ".txt"]
         [] v = "generic-startup" ->
              [connection_types |-> {"ssh", "telnet"},
               backup_command |-> <<"show", "startup-config">>,
               output_extension |-> ".txt"]]

(***************************************************************************)
(* adapters.py: the adapter classes and their registry                     *)
(***************************************************************************)
\* VENDOR_ADAPTERS: the backup_command and output_extension properties of
\* the class registered for each vendor
VENDOR_ADAPTERS ==
    [v \in {"mikrotik", "cisco", "huawei", "zte", "juniper", "generic",
            "generic-saved", "generic-startup"} |->
       CASE v = "mikrotik" ->
              [backup_command |-> <<"/export">>, output_extension |-> ".rsc"]
         [] v = "cisco" ->
              [backup_command |-> <<"show", "running-config">>,
               output_extension |-> ".txt"]
         [] v = "huawei" ->
              [backup_command |-> <<"display", "current-configuration">>,
               output_extension |-> ".txt"]
         [] v = "zte" ->
              [backup_command |-> <<"file", "upload", "cfg-startup", "startrun.dat", "ftp">>,
               output_extension |-> ".dat"]
         [] v = "juniper" ->
              [backup_command |-> <<"show", "configuration", "|", "display", "set">>,
               output_extension |-> ".txt"]
         [] v = "generic" ->
              [backup_command |-> <<"show", "running-config">>,
               output_extension |-> ".txt"]
         [] v = "generic-saved" ->
              [backup_command |-> <<"show", "saved-config">>,
               output_extension |-> ".txt"]
         [] v = "generic-startup" ->
              [backup_command |-> <<"show", "startup-config">>,
               output_extension |-> ".txt"]]

\* the adapter classes that override backup() with the FTP relay flow
RelayVendors == {"zte"}

(***************************************************************************)
(* The devices table (models.Device rows handed to the collector)          *)
(***************************************************************************)
Devices ==
    [d \in 1..10 |->
       CASE d = 1 -> [vendor |-> "cisco", ip_address |-> "10.0.0.1",
                      connection_type |-> "ssh", enable_password |-> TRUE]
         [] d = 2 -> [vendor |-> "zte", ip_address |-> "10.0.0.2",
                      connection_type |-> "ssh", enable_password |-> FALSE]
         [] d = 3 -> [vendor |-> "mikrotik", ip_address |-> "10.0.0.3",
                      connection_type |-> "telnet", enable_password |-> FALSE]
         [] d = 4 -> [vendor |-> "acme", ip_address |-> "10.0.0.4",
                      connection_type |-> "ssh", enable_password |-> FALSE]
         [] d = 5 -> [vendor |-> "huawei", ip_address |-> "10.0.0.5",
                      connection_type |-> "telnet", enable_password |-> FALSE]
         [] d = 6 -> [vendor |-> "juniper", ip_address |-> "10.0.0.6",
                      connection_type |-> "ssh", enable_password |-> FALSE]
         [] d = 7 -> [vendor |-> "mikrotik", ip_address |-> "10.0.0.7",
                      connection_type |-> "ssh", enable_password |-> FALSE]
         [] d = 8 -> [vendor |-> "generic", ip_address |-> "10.0.0.8",
                      connection_type |-> "ssh", enable_password |-> FALSE]
         [] d = 9 -> [vendor |-> "generic-saved", ip_address |-> "10.0.0.9",
                      connection_type |-> "ssh", enable_password |-> FALSE]
         [] d = 10 -> [vendor |-> "generic-startup", ip_address |-> "10.0.0.10",
                       connection_type |-> "telnet", enable_password |-> FALSE]]

\* str.lower() on a vendor tag: the tags in the table are lower-case already
\* (the device form offers only the compiled choices)
Lower(tag) == tag

\* _get_vendor_config: VENDOR_COMMANDS.get(vendor.lower())
VendorConfig(vendor) ==
    IF Lower(vendor) \in DOMAIN VENDOR_COMMANDS THEN <<VENDOR_COMMANDS[Lower(vendor)]>>
    ELSE None

(***************************************************************************)
(* Messages: sequences of words                                            *)
(***************************************************************************)
AuthFailed(ip) == <<"Authentication", "failed", "for", ip>>
ConnTimeout(ip) == <<"Connection", "timeout", "for", ip>>
ConnectErrors(ip) == {AuthFailed(ip), ConnTimeout(ip)}
\* str(e) of whatever connection.enable() / send_command() raised (netmiko)
EnableError == <<"Failed", "to", "enter", "enable", "mode.">>
CommandError == <<"Pattern", "not", "detected", "in", "output.">>

UnsupportedVendor(vendor) == <<"Unsupported", "vendor:", vendor>>
\* str(e) of the ValueError get_adapter raises
GetAdapterError(vendor) ==
    <<"Unsupported", "vendor:", Lower(vendor) \o ".", "Supported:",
      "['mikrotik', 'cisco', 'huawei', 'zte', 'juniper', 'generic', 'generic-saved', 'generic-startup']">>
UnsupportedConnection(ctype, vendor) ==
    <<"Connection", "type", ctype, "not", "supported", "for", vendor>>
StorageErrorPrefix == <<"Storage", "error:">>
FailedAfterRetryPrefix == <<"Failed", "after", "retry:">>

\* 'timeout' in str(error_message).lower(): the words of the messages above
\* that contain it
HasTimeout(msg) == \E i \in 1..Len(msg) : msg[i] \in {"timeout", "Timeout"}

\* what the devices print in answer to the backup command
Outputs == {<<97, CR, LF>>}

(***************************************************************************)
(* VendorAdapter (the inline adapters)                                     *)
(***************************************************************************)
\* VendorAdapter.__init__: no connection yet
NewAdapter(vendor) == [vendor |-> Lower(vendor), connection |-> FALSE]

\* connect() when ConnectHandler returned a session
Connect(adapter) == [adapter EXCEPT !.connection = TRUE]

\* disconnect(): the connection is dropped, whatever happened before
DisconnectMutant(adapter) == adapter
Disconnect(adapter) == [adapter EXCEPT !.connection = FALSE]

\* the finally clause of backup(): self.disconnect() on every way out
BackupFinallyMutant(adapter) == adapter
BackupFinally(adapter) == Disconnect(adapter)

\* execute_backup: the command handed to connection.send_command
ExecuteBackupCommandMutant(adapter, device_id) ==
    VENDOR_ADAPTERS[adapter.vendor].backup_command \o <<ToString(device_id)>>
ExecuteBackupCommand(adapter, device_id) == VENDOR_ADAPTERS[adapter.vendor].backup_command

BackupResult(success, output, checksum, error) ==
    [success |-> success, output |-> output, checksum |-> checksum, error |-> error]

\* what the device and the network let one inline backup() run into:
\* connect() raising ConnectionError, CiscoAdapter.connect() raising out of
\* enable(), send_command() raising, or the command's output
InlineOutcomes(dev) ==
    {[kind |-> "connect_error", error |-> e, output |-> None] :
        e \in ConnectErrors(dev.ip_address)}
    \cup (IF dev.vendor = "cisco" /\ dev.enable_password
          THEN {[kind |-> "enable_error", error |-> EnableError, output |-> None]}
          ELSE {})
    \cup {[kind |-> "command_error", error |-> CommandError, output |-> None]}
    \cup {[kind |-> "output", error |-> None, output |-> o] : o \in Outputs}

\* VendorAdapter.backup(): the result dictionary for an outcome
InlineBackupResultMutant(o) ==
    BackupResult(TRUE, IF o.output = None THEN <<>> ELSE o.output,
                 <<Sha256(<<>>)>>, None)
InlineBackupResult(o) ==
    IF o.kind = "output"
    THEN BackupResult(TRUE, o.output, <<Sha256(Utf8Encode(o.output))>>, None)
    ELSE BackupResult(FALSE, None, None, o.error)

(***************************************************************************)
(* ZTEAdapter (the FTP relay adapter)                                      *)
(***************************************************************************)
FTP_POLL_TIMEOUT == 120

\* values of LEUITCSS_FTP_PASSWORD ('' when unset)
FtpPasswords == {"", "s3cret"}
\* LEUITCSS_FTP_USER (default) and the address _get_server_ip returns
FtpUser == "leuitcss"
ServerIp == "10.0.0.254"

\* what a device uploads as startrun.dat: text, and bytes that are not UTF-8
RelayBytes == {<<97>>, <<255>>}

\* a startrun.dat at a drop location; by is the attempt <<call, attempt>> whose
\* upload command the device answered with it (<<>>: no attempt of this run)
File(data, by) == [data |-> data, by |-> by, complete |-> TRUE]

\* the file of an upload that is still being received
PartialFile(data, by) == [data |-> data, by |-> by, complete |-> FALSE]

FtpNotEnabled ==
    <<"FTP", "server", "is", "not", "enabled.", "Enable", "it", "in", "Web", "UI",
      "(ZTE", "FTP", "Ingestion)">>
FtpNoPassword == <<"FTP", "password", "not", "configured", "in", ".env", "file">>
FtpNotReceived ==
    <<"FTP", "file", "not", "received", "within", ToString(FTP_POLL_TIMEOUT), "seconds">>

\* _get_ftp_config: 'enabled' is the systemd status of the ingestion service
\* at the time of the call
FtpConfig(running, password) ==
    [enabled |-> running, user |-> FtpUser, password |-> password]

\* os.environ.get('LEUITCSS_FTP_PASSWORD', ''): the environment does not
\* change while the process runs, so every read returns what the first did
EnvPasswords == IF env = None THEN FtpPasswords ELSE {env[1]}

\* _build_ftp_upload_command
BuildFtpUploadCommand(device_id, password) ==
    <<"file", "upload", "cfg-startup", "startrun.dat", "ftp",
      "ipaddress", ServerIp,
      "path", "zte/" \o ToString(device_id) \o "/",
      "user", FtpUser,
      "password", password>>

(***************************************************************************)
(* ZTEAdapter._poll_for_file, statement by statement.  Time is in seconds; *)
(* it passes in time.sleep() only.                                         *)
(***************************************************************************)
FTP_POLL_INTERVAL == 3
\* the settle wait once the file is seen: time.sleep(1)
SETTLE_SECONDS == 1

MaxPollClock == 130     \* the time axis explored

\* the device whose drop directory is polled
PollDevice == 2

IdlePoll ==
    [pc |-> "idle", start_time |-> 0, now |-> 0, appeared |-> FALSE, result |-> None,
     accepted |-> None]

Elapsed == poll.now - poll.start_time

\* line 464: (time.time() - start_time) < self.FTP_POLL_TIMEOUT
BudgetLeftMutant(elapsed) == TRUE
BudgetLeft(elapsed) == elapsed < FTP_POLL_TIMEOUT

\* the caller's clock when it enters _poll_for_file
PollStarts == 0..2

\* start_time = time.time()
PollStart ==
    /\ poll.pc = "idle"
    /\ \E t0 \in PollStarts :
         poll' = [poll EXCEPT !.pc = "check", !.start_time = t0, !.now = t0,
                              !.appeared = inbox[PollDevice] # None]
    /\ UNCHANGED <<clock, db_session, storeVars, bd, history, devstatus, calls, relayVars>>

\* the while test and target_file.exists()
PollCheck ==
    /\ poll.pc = "check"
    /\ poll' = IF ~BudgetLeft(Elapsed)
               THEN [poll EXCEPT !.pc = "done", !.result = None]
               ELSE IF inbox[PollDevice] # None
               THEN [poll EXCEPT !.pc = "settle"]
               ELSE [poll EXCEPT !.pc = "sleep"]
    /\ UNCHANGED <<clock, db_session, storeVars, bd, history, devstatus, calls, relayVars>>

\* time.sleep(1), then target_file.stat().st_size > 0; a file removed in the
\* meantime makes stat() raise FileNotFoundError out of _poll_for_file
PollSettleMutant ==
    /\ poll.pc = "settle"
    /\ poll.now + SETTLE_SECONDS <= MaxPollClock
    /\ poll' = [poll EXCEPT !.now = @ + SETTLE_SECONDS, !.pc = "done",
                            !.result = <<"startrun.dat">>,
                            !.accepted = inbox[PollDevice]]
    /\ UNCHANGED <<clock, db_session, storeVars, bd, history, devstatus, calls, relayVars>>
PollSettle ==
    /\ poll.pc = "settle"
    /\ poll.now + SETTLE_SECONDS <= MaxPollClock
    /\ LET file == inbox[PollDevice]
           p    == [poll EXCEPT !.now = @ + SETTLE_SECONDS]
       IN  poll' = IF file = None
                   THEN [p EXCEPT !.pc = "done", !.result = <<"FileNotFoundError">>]
                   ELSE IF Len(file[1].data) > 0
                   THEN [p EXCEPT !.pc = "done", !.result = <<"startrun.dat">>,
                                  !.accepted = file]
                   ELSE [p EXCEPT !.pc = "sleep"]
    /\ UNCHANGED <<clock, db_session, storeVars, bd, history, devstatus, calls, relayVars>>

\* time.sleep(self.FTP_POLL_INTERVAL)
PollSleep ==
    /\ poll.pc = "sleep"
    /\ poll.now + FTP_POLL_INTERVAL <= MaxPollClock
    /\ poll' = [poll EXCEPT !.pc = "check", !.now = @ + FTP_POLL_INTERVAL]
    /\ UNCHANGED <<clock, db_session, storeVars, bd, history, devstatus, calls, relayVars>>

PollLoop == PollCheck \/ PollSettle \/ PollSleep

\* what devices upload here: as before, and a file of two blocks
LongUpload == <<97, 98>>
UploadContents == RelayBytes \cup {LongUpload}

IsPrefix(p, msg) == Len(msg) >= Len(p) /\ SubSeq(msg, 1, Len(p)) = p

\* the FTP server creates the file the device uploads, then receives its bytes
UploadBegins ==
    /\ inbox[PollDevice] = None
    /\ inbox' = [inbox EXCEPT ![PollDevice] = <<PartialFile(<<>>, <<>>)>>]
    /\ poll' = [poll EXCEPT !.appeared = @ \/ poll.pc \notin {"idle", "done"}]
    /\ UNCHANGED <<clock, db_session, storeVars, bd, history, devstatus, calls, uploads, env, ingest>>

UploadCompletes ==
    /\ inbox[PollDevice] # None
    /\ ~inbox[PollDevice][1].complete
    /\ \E b \in UploadContents :
         /\ IsPrefix(inbox[PollDevice][1].data, b)
         /\ inbox' = [inbox EXCEPT ![PollDevice] = <<File(b, <<>>)>>]
    /\ UNCHANGED <<clock, db_session, storeVars, bd, history, devstatus, calls, uploads, env, ingest, poll>>

\* the FTP server has written the first block of a longer file
UploadChunk ==
    /\ inbox[PollDevice] = <<PartialFile(<<>>, <<>>)>>
    /\ inbox' = [inbox EXCEPT ![PollDevice] =
                   <<PartialFile(SubSeq(LongUpload, 1, 1), <<>>)>>]
    /\ UNCHANGED <<clock, db_session, storeVars, bd, history, devstatus, calls, uploads, env, ingest, poll>>

\* the transfer breaks off: on_incomplete_file_received removes the file
UploadAborted ==
    /\ inbox[PollDevice] # None
    /\ ~inbox[PollDevice][1].complete
    /\ inbox' = [inbox EXCEPT ![PollDevice] = None]
    /\ ingest' = [ingest EXCEPT !.removed = @ \cup {ToString(PollDevice)}]
    /\ UNCHANGED <<clock, db_session, storeVars, bd, history, devstatus, calls, uploads, env, poll>>

(***************************************************************************)
(* BackupCollector                                                         *)
(***************************************************************************)
MaxCalls == 1       \* top-level backup_device calls
MaxDepth == 3       \* deepest backup_device recursion explored

\* the result dictionary backup_device starts from
NewResultMutant(d) ==
    [success |-> TRUE, history_id |-> None, file_path |-> None, checksum |-> None,
     error |-> None, device_id |-> d]
NewResult(d) ==
    [success |-> FALSE, history_id |-> None, file_path |-> None, checksum |-> None,
     error |-> None, device_id |-> d]

NewFrame(call, d, retry, by) ==
    [call |-> call, device |-> d, retry |-> retry, triggered_by |-> by,
     pc |-> "start", hist |-> 0, result |-> NewResult(d),
     adapter |-> None, backup_result |-> None]

Top(t) == bd[t][Len(bd[t])]
SetTop(t, f) == [bd EXCEPT ![t][Len(bd[t])] = f]

\* what one attempt (one adapter) did
NewAttempt(hist, d, retry) ==
    [hist |-> hist, device |-> d, is_retry |-> retry, invoked |-> 0, precheck |-> "none",
     connects |-> 0, sessions |-> 0, sent |-> <<>>, adapter |-> "running",
     save |-> "none", save_call |-> 0, stale |-> None, received |-> None,
     steps |-> <<>>]

CurAttempt(c) == calls[c].attempts[Len(calls[c].attempts)]
SetAttempt(c, a) == [calls EXCEPT ![c].attempts = [@ EXCEPT ![Len(@)] = a]]

\* the scheduler job thread and the request thread of the manual route
TriggeredBy(t) == IF t = "w1" THEN "scheduler" ELSE "manual"

\* _create_backup_history
CreateBackupHistoryMutant(d, by) ==
    [device_id |-> d, vendor |-> Devices[d].vendor,
     backup_command |-> IF Lower(Devices[d].vendor) \in RelayVendors
                        THEN BuildFtpUploadCommand(d, "s3cret")
                        ELSE VendorConfig(Devices[d].vendor)[1].backup_command,
     status |-> "running", triggered_by |-> by, retry_count |-> 0,
     completed |-> FALSE, file_path |-> None, checksum_sha256 |-> None,
     error_message |-> None, session |-> None]
CreateBackupHistory(d, by) ==
    [device_id |-> d, vendor |-> Devices[d].vendor,
     backup_command |-> VendorConfig(Devices[d].vendor)[1].backup_command,
     status |-> "running", triggered_by |-> by, retry_count |-> 0,
     completed |-> FALSE, file_path |-> None, checksum_sha256 |-> None,
     error_message |-> None, session |-> None]

\* _update_backup_history
UpdateBackupHistoryMutant(h, success, file_path, checksum, error_message) ==
    [h EXCEPT !.completed = TRUE, !.status = "success",
              !.file_path = file_path, !.checksum_sha256 = checksum]
UpdateBackupHistory(h, success, file_path, checksum, error_message) ==
    IF success
    THEN [h EXCEPT !.completed = TRUE, !.status = "success",
                   !.file_path = file_path, !.checksum_sha256 = checksum]
    ELSE [h EXCEPT !.completed = TRUE,
                   !.status = IF HasTimeout(error_message) THEN "timeout" ELSE "failed",
                   !.error_message = error_message]

\* _update_device_status
UpdateDeviceStatus(ds, d, status) ==
    [ds EXCEPT ![d] = <<status>>]

\* line 239: retry and history.retry_count < MAX_RETRY
ShouldRetryMutant(retry, retry_count) == retry_count < MAX_RETRY
ShouldRetry(retry, retry_count) == retry /\ retry_count < MAX_RETRY

\* line 170: device.connection_type in vendor_config['connection_types']
ConnectionSupportedMutant(ctype, vendor_config) == TRUE
ConnectionSupported(ctype, vendor_config) == ctype \in vendor_config.connection_types

\* lines 245-251: what the retrying frame makes of retry_result
ResultAfterRetryMutant(result, retry_result) ==
    [result EXCEPT !.error = FailedAfterRetryPrefix \o retry_result.error]
ResultAfterRetry(result, retry_result) ==
    IF retry_result.success THEN retry_result
    ELSE [result EXCEPT !.error = FailedAfterRetryPrefix \o retry_result.error]

\* get_collector(db_session): the one collector of the process takes the
\* caller's session
GetCollector(current, session) == IF session # None THEN session ELSE current

\* self.db_session.add(history); self.db_session.commit()
AddHistory(h, session) == [h EXCEPT !.session = session]

\* a caller (scheduler job, manual route) makes a session, gets the collector
\* with it and invokes backup_device(device)
BackupDevice(t, d, max_calls) ==
    /\ bd[t] = <<>>
    /\ sv[t].pc = "idle"
    /\ Len(calls) < max_calls
    /\ bd' = [bd EXCEPT ![t] = <<NewFrame(Len(calls) + 1, d, TRUE, TriggeredBy(t))>>]
    /\ calls' = Append(calls, [thread |-> t, device |-> d, attempts |-> <<>>,
                               returned |-> None, fs_before |-> fs, fs_after |-> None])
    /\ db_session' = GetCollector(db_session, <<Len(calls) + 1>>)
    /\ UNCHANGED <<clock, poll, storeVars, history, devstatus, relayVars>>

\* backup_device up to the adapter: validation, history record, get_adapter
BdStart(t) ==
    /\ bd[t] # <<>>
    /\ Top(t).pc = "start"
    /\ LET f   == Top(t)
           dev == Devices[f.device]
           vc  == VendorConfig(dev.vendor)
           id  == Len(history) + 1
       IN  IF vc = None
           THEN /\ bd' = SetTop(t, [f EXCEPT !.pc = "return",
                                      !.result.error = UnsupportedVendor(dev.vendor)])
                /\ UNCHANGED <<history, devstatus, calls>>
           ELSE IF ~ConnectionSupported(dev.connection_type, vc[1])
           THEN /\ bd' = SetTop(t, [f EXCEPT !.pc = "return",
                                      !.result.error =
                                         UnsupportedConnection(dev.connection_type,
                                                               dev.vendor)])
                /\ UNCHANGED <<history, devstatus, calls>>
           ELSE IF Lower(dev.vendor) \notin DOMAIN VENDOR_ADAPTERS
           THEN \* get_adapter raised ValueError
                /\ history' = Append(history,
                       UpdateBackupHistory(
                           AddHistory(CreateBackupHistory(f.device, f.triggered_by),
                                      db_session),
                           FALSE, None, None, GetAdapterError(dev.vendor)))
                /\ devstatus' = UpdateDeviceStatus(devstatus, f.device, "failed")
                /\ bd' = SetTop(t, [f EXCEPT !.pc = "return", !.hist = id,
                                      !.result.history_id = <<id>>,
                                      !.result.error = GetAdapterError(dev.vendor)])
                /\ UNCHANGED calls
           ELSE /\ history' = Append(history,
                                     AddHistory(CreateBackupHistory(f.device,
                                                                    f.triggered_by),
                                                db_session))
                /\ bd' = SetTop(t, [f EXCEPT !.pc = "backup", !.hist = id,
                                      !.result.history_id = <<id>>,
                                      !.adapter = <<NewAdapter(dev.vendor)>>])
                /\ calls' = [calls EXCEPT ![f.call].attempts =
                               Append(@, NewAttempt(id, f.device, ~f.retry))]
                /\ UNCHANGED devstatus
    /\ UNCHANGED <<clock, db_session, poll, storeVars, relayVars>>

\* adapter.backup() of an inline adapter: connect, execute_backup, disconnect
InlineBackup(t) ==
    /\ bd[t] # <<>>
    /\ Top(t).pc = "backup"
    /\ Top(t).adapter[1].vendor \notin RelayVendors
    /\ LET f   == Top(t)
           dev == Devices[f.device]
           a   == CurAttempt(f.call)
       IN  \E o \in InlineOutcomes(dev) :
             /\ bd' = SetTop(t, [f EXCEPT !.pc = "after",
                                   !.adapter = <<BackupFinally(IF o.kind = "connect_error"
                                                            THEN f.adapter[1]
                                                            ELSE Connect(f.adapter[1]))>>,
                                   !.backup_result = <<InlineBackupResult(o)>>])
             /\ calls' = SetAttempt(f.call,
                  [a EXCEPT !.invoked = @ + 1,
                            !.connects = @ + 1,
                            !.sessions = IF o.kind = "connect_error" THEN @ ELSE @ + 1,
                            !.sent = IF o.kind \in {"command_error", "output"}
                                     THEN Append(@, ExecuteBackupCommand(f.adapter[1],
                                                                         f.device))
                                     ELSE @,
                            !.adapter = IF o.kind = "output" THEN "ok" ELSE o.kind])
    /\ UNCHANGED <<clock, db_session, poll, storeVars, history, devstatus, relayVars>>

\* _clear_inbox: os.remove(target_file) if it exists; an exception of
\* os.remove is swallowed and the file stays
ClearInbox(file, remove_raises) ==
    IF file # None /\ ~remove_raises THEN None ELSE file

\* ZTEAdapter.backup() up to connect(): the precondition checks, then
\* _get_ftp_inbox_path and _clear_inbox
ZtePrecheck(t, faults) ==
    /\ bd[t] # <<>>
    /\ Top(t).pc = "backup"
    /\ Top(t).adapter[1].vendor \in RelayVendors
    /\ LET f == Top(t)
           a == [CurAttempt(f.call) EXCEPT !.invoked = @ + 1]
       IN  \E running \in BOOLEAN, pw \in EnvPasswords :
             LET ftp_config == FtpConfig(running, pw)
             IN  /\ env' = <<pw>>
                 /\ IF ~ftp_config.enabled
                    THEN /\ bd' = SetTop(t, [f EXCEPT !.pc = "after",
                                   !.adapter = <<BackupFinally(f.adapter[1])>>,
                                   !.backup_result =
                                      <<BackupResult(FALSE, None, None, FtpNotEnabled)>>])
                         /\ calls' = SetAttempt(f.call,
                                        [a EXCEPT !.precheck = "service",
                                                  !.adapter = "precondition"])
                         /\ UNCHANGED inbox
                    ELSE IF ftp_config.password = ""
                    THEN /\ bd' = SetTop(t, [f EXCEPT !.pc = "after",
                                   !.adapter = <<BackupFinally(f.adapter[1])>>,
                                   !.backup_result =
                                      <<BackupResult(FALSE, None, None, FtpNoPassword)>>])
                         /\ calls' = SetAttempt(f.call,
                                        [a EXCEPT !.precheck = "password",
                                                  !.adapter = "precondition"])
                         /\ UNCHANGED inbox
                    ELSE /\ bd' = SetTop(t, [f EXCEPT !.pc = "zte_connect"])
                         /\ \E remove_raises \in
                                  (IF inbox[f.device] = None THEN {FALSE} ELSE faults) :
                               LET left == ClearInbox(inbox[f.device], remove_raises)
                               IN  /\ inbox' = [inbox EXCEPT ![f.device] = left]
                                   /\ calls' = SetAttempt(f.call,
                                        [a EXCEPT !.precheck = "ok",
                                                  !.stale = inbox[f.device],
                                                  !.steps = @ \o
                                                     <<"precondition_check",
                                                       IF left = None
                                                       THEN "inbox_cleared"
                                                       ELSE "inbox_not_cleared">>])
    /\ UNCHANGED <<clock, db_session, poll, storeVars, history, devstatus, uploads, ingest>>

\* ZTEAdapter.backup(): connect(), send the upload command, disconnect()
ZteSession(t) ==
    /\ bd[t] # <<>>
    /\ Top(t).pc = "zte_connect"
    /\ LET f   == Top(t)
           dev == Devices[f.device]
           a   == [CurAttempt(f.call) EXCEPT !.connects = @ + 1]
           cmd == BuildFtpUploadCommand(f.device, env[1])
           id  == <<f.call, Len(calls[f.call].attempts)>>
       IN  \/ \E e \in ConnectErrors(dev.ip_address) :
                /\ bd' = SetTop(t, [f EXCEPT !.pc = "after",
                          !.adapter = <<BackupFinally(f.adapter[1])>>,
                          !.backup_result = <<BackupResult(FALSE, None, None, e)>>])
                /\ calls' = SetAttempt(f.call,
                               [a EXCEPT !.adapter = "connect_error",
                                         !.steps = @ \o <<"connect_failed">>])
                /\ UNCHANGED uploads
           \/ \* send_command raised: the device did not take the command
              /\ bd' = SetTop(t, [f EXCEPT !.pc = "after",
                        !.adapter = <<BackupFinally(Connect(f.adapter[1]))>>,
                        !.backup_result =
                           <<BackupResult(FALSE, None, None, CommandError)>>])
              /\ calls' = SetAttempt(f.call,
                             [a EXCEPT !.sessions = @ + 1, !.sent = Append(@, cmd),
                                       !.adapter = "command_error",
                                       !.steps = @ \o <<"connected", "command_failed",
                                                        "disconnected">>])
              /\ UNCHANGED uploads
           \/ /\ bd' = SetTop(t, [f EXCEPT !.pc = "zte_poll",
                        !.adapter = <<Disconnect(Connect(f.adapter[1]))>>])
              /\ calls' = SetAttempt(f.call,
                             [a EXCEPT !.sessions = @ + 1, !.sent = Append(@, cmd),
                                       !.steps = @ \o <<"connected", "command_issued",
                                                        "disconnected">>])
              /\ uploads' = uploads \cup {[device |-> f.device, by |-> id]}
    /\ UNCHANGED <<clock, db_session, poll, storeVars, history, devstatus, inbox, env, ingest>>

\* the device's upload arrives at its drop location
DeviceUpload(u) ==
    /\ u \in uploads
    /\ \E b \in RelayBytes : inbox' = [inbox EXCEPT ![u.device] = <<File(b, u.by)>>]
    /\ uploads' = uploads \ {u}
    /\ UNCHANGED <<clock, db_session, poll, storeVars, bd, history, devstatus, calls, env, ingest>>

\* the uploads attempts can ask for: the device, and the attempt <<call, attempt>>
Uploads(max_calls) ==
    [device : {d \in DOMAIN Devices : Lower(Devices[d].vendor) \in RelayVendors},
     by : (1..max_calls) \X (1..(1 + MAX_RETRY))]

\* the attempt that told the device to upload is still waiting for the file
Awaited(u) ==
    \E t \in Threads :
        /\ bd[t] # <<>>
        /\ Top(t).pc = "zte_poll"
        /\ <<Top(t).call, Len(calls[Top(t).call].attempts)>> = u.by

\* the device uploads while the attempt that asked for it is waiting
PromptUpload(u) == Awaited(u) /\ DeviceUpload(u)

\* ZTEAdapter.backup(): _poll_for_file and what follows it
ZtePoll(t) ==
    /\ bd[t] # <<>>
    /\ Top(t).pc = "zte_poll"
    /\ LET f == Top(t)
           a == CurAttempt(f.call)
           file == inbox[f.device]
       IN  IF file # None /\ Len(file[1].data) > 0
           THEN LET content == file[1].data
                IN  /\ bd' = SetTop(t, [f EXCEPT !.pc = "after",
                              !.adapter = <<BackupFinally(f.adapter[1])>>,
                              !.backup_result =
                                 <<BackupResult(TRUE, Utf8DecodeReplace(content),
                                                <<Sha256(content)>>, None)>>])
                    /\ calls' = SetAttempt(f.call,
                                   [a EXCEPT !.adapter = "ok", !.received = file,
                                             !.steps = @ \o <<"polling", "received">>])
           ELSE \* the wait budget ran out
                /\ bd' = SetTop(t, [f EXCEPT !.pc = "after",
                          !.adapter = <<BackupFinally(f.adapter[1])>>,
                          !.backup_result =
                             <<BackupResult(FALSE, None, None, FtpNotReceived)>>])
                /\ calls' = SetAttempt(f.call,
                               [a EXCEPT !.adapter = "poll_timeout",
                                         !.steps = @ \o <<"polling", "timed_out">>])
    /\ UNCHANGED <<clock, db_session, poll, storeVars, history, devstatus, relayVars>>

\* backup_device after adapter.backup() returned: hand the output to the
\* store, or take the failure branch (retry once, or record the failure)
BdAfterBackup(t) ==
    /\ bd[t] # <<>>
    /\ Top(t).pc = "after"
    /\ LET f   == Top(t)
           dev == Devices[f.device]
           vc  == VendorConfig(dev.vendor)[1]
           br  == f.backup_result[1]
       IN  IF br.success
           THEN /\ sv' = [sv EXCEPT ![t] =
                            SaveEntry(nSave + 1,
                                      SaveArgs(dev.vendor, f.device, dev.ip_address,
                                               dev.connection_type, vc.backup_command,
                                               br.output, vc.output_extension),
                                      clock)]
                /\ nSave' = nSave + 1
                /\ bd' = SetTop(t, [f EXCEPT !.pc = "saving"])
                /\ calls' = SetAttempt(f.call,
                               [CurAttempt(f.call) EXCEPT !.save_call = nSave + 1])
                /\ UNCHANGED <<history, devstatus, fs, saveLog, nTamper>>
           ELSE IF ShouldRetry(f.retry, history[f.hist].retry_count)
           THEN /\ Len(bd[t]) < MaxDepth
                /\ history' = [history EXCEPT ![f.hist].retry_count = @ + 1]
                /\ bd' = [bd EXCEPT ![t] =
                            Append([@ EXCEPT ![Len(@)] =
                                      [f EXCEPT !.pc = "retrying",
                                                !.result.error = br.error]],
                                   NewFrame(f.call, f.device, FALSE, f.triggered_by))]
                /\ UNCHANGED <<devstatus, calls, storeVars>>
           ELSE /\ history' = [history EXCEPT ![f.hist] =
                                 UpdateBackupHistory(@, FALSE, None, None, br.error)]
                /\ devstatus' = UpdateDeviceStatus(devstatus, f.device, "failed")
                /\ bd' = SetTop(t, [f EXCEPT !.pc = "return",
                                      !.result.error = br.error])
                /\ UNCHANGED <<calls, storeVars>>
    /\ UNCHANGED <<clock, db_session, poll, relayVars>>

\* backup_device after save_backup returned
BdAfterSave(t) ==
    /\ bd[t] # <<>>
    /\ Top(t).pc = "saving"
    /\ sv[t].pc = "ret"
    /\ LET f  == Top(t)
           sr == sv[t].result
           a  == CurAttempt(f.call)
       IN  IF sr.success
           THEN /\ history' = [history EXCEPT ![f.hist] =
                                 UpdateBackupHistory(@, TRUE, sr.file_path, sr.checksum,
                                                     None)]
                /\ devstatus' = UpdateDeviceStatus(devstatus, f.device, "success")
                /\ bd' = SetTop(t, [f EXCEPT !.pc = "return",
                                      !.result.success = TRUE,
                                      !.result.file_path = sr.file_path,
                                      !.result.checksum = sr.checksum])
                /\ calls' = SetAttempt(f.call, [a EXCEPT !.save = "ok"])
           ELSE /\ history' = [history EXCEPT ![f.hist] =
                                 UpdateBackupHistory(@, FALSE, None, None,
                                                     StorageErrorPrefix \o sr.error)]
                /\ devstatus' = UpdateDeviceStatus(devstatus, f.device, "failed")
                /\ bd' = SetTop(t, [f EXCEPT !.pc = "return",
                                      !.result.error = StorageErrorPrefix \o sr.error])
                /\ calls' = SetAttempt(f.call, [a EXCEPT !.save = "failed"])
    /\ sv' = [sv EXCEPT ![t] = IdleSave]
    /\ UNCHANGED <<clock, db_session, poll, fs, nSave, saveLog, nTamper, relayVars>>

\* return of backup_device: to the caller, or into the frame that retried
BdReturn(t) ==
    /\ bd[t] # <<>>
    /\ Top(t).pc = "return"
    /\ LET f == Top(t)
           n == Len(bd[t])
       IN  IF n = 1
           THEN /\ bd' = [bd EXCEPT ![t] = <<>>]
                /\ calls' = [calls EXCEPT ![f.call].returned = <<f.result>>,
                                          ![f.call].fs_after = <<fs>>]
                /\ UNCHANGED <<history, devstatus>>
           ELSE LET p == bd[t][n - 1]
                IN  IF f.result.success
                    THEN \* return retry_result
                         /\ bd' = [bd EXCEPT ![t] =
                                     Append(SubSeq(@, 1, n - 2),
                                            [p EXCEPT !.pc = "return",
                                                      !.result =
                                                         ResultAfterRetry(p.result,
                                                                          f.result)])]
                         /\ UNCHANGED <<history, devstatus, calls>>
                    ELSE LET error == ResultAfterRetry(p.result, f.result).error
                         IN  /\ history' = [history EXCEPT ![p.hist] =
                                              UpdateBackupHistory(@, FALSE, None, None,
                                                                  error)]
                             /\ devstatus' = UpdateDeviceStatus(devstatus, p.device,
                                                                "failed")
                             /\ bd' = [bd EXCEPT ![t] =
                                         Append(SubSeq(@, 1, n - 2),
                                                [p EXCEPT !.pc = "return",
                                                          !.result =
                                                             ResultAfterRetry(p.result,
                                                                              f.result)])]
                             /\ UNCHANGED calls
    /\ UNCHANGED <<clock, db_session, poll, storeVars, relayVars>>

(***************************************************************************)
(* Callers of the store                                                    *)
(***************************************************************************)
StoreVendors == {"cisco"}
StoreDeviceIds == {1}

\* a caller invokes save_backup
StoreSave(t) ==
    /\ sv[t].pc = "idle"
    /\ nSave < MaxSaves
    /\ nSave' = nSave + 1
    /\ \E v \in StoreVendors, d \in StoreDeviceIds, c \in Contents :
         sv' = [sv EXCEPT ![t] =
                  SaveEntry(nSave + 1,
                            SaveArgs(v, d, "10.0.0.1", "ssh", <<"show", "running-config">>,
                                     c, ".txt"), clock)]
    /\ UNCHANGED <<clock, fs, saveLog, nTamper, collVars>>

\* the caller takes the returned result
StoreSaveDone(t) ==
    /\ sv[t].pc = "ret"
    /\ sv' = [sv EXCEPT ![t] = IdleSave]
    /\ UNCHANGED <<clock, fs, nSave, saveLog, nTamper, collVars>>

\* the paths callers read: those save_backup returned, and one that was
\* never stored
ReadPaths ==
    {e.result.file_path[1] : e \in {x \in saveLog : x.result.success}}
        \cup {RelPath(BackupPath("cisco", 9, 0), ConfigFilename(".txt"))}

\* a caller invokes a read operation of the StorageManager and takes what
\* it returns
StoreReadMutant(t, op) ==
    /\ sv[t].pc = "idle"
    /\ \E path \in ReadPaths :
         /\ sv' = [sv EXCEPT ![t] = [pc |-> "idle", op |-> op,
                                     result |-> ReadResult(op, fs, path)]]
         /\ fs' = [k \in DOMAIN fs \ {path.dir} |-> fs[k]]
    /\ UNCHANGED <<clock, nSave, saveLog, nTamper, collVars>>
StoreRead(t, op) ==
    /\ sv[t].pc = "idle"
    /\ \E path \in ReadPaths :
         sv' = [sv EXCEPT ![t] = [pc |-> "idle", op |-> op,
                                  result |-> ReadResult(op, fs, path)]]
    /\ UNCHANGED <<clock, fs, nSave, saveLog, nTamper, collVars>>

Tick(last) ==
    /\ clock < last
    /\ clock' = clock + 1
    /\ UNCHANGED <<storeVars, collVars>>

(***************************************************************************)
(* The FTP server's upload handler (the ingestion side of the relay)       *)
(***************************************************************************)
MaxUploads == 2     \* uploads the FTP server receives

\* the registered relay devices and their Device.name
RelayDevices == {2}
DeviceNames == [d \in RelayDevices |-> "olt-core"]

\* the folders under zte/ a device's upload may land in: the one the upload
\* command names (the device id), and the one the handler resolves (the
\* device name)
DropFolders(d) == {ToString(d), DeviceNames[d]}

\* the handler of the FTP server inside the application, and the one of the
\* standalone server
FtpServers == {"app", "standalone"}

\* file names as character codes: "startrun.dat", "STARTRUN.DAT",
\* "xstartrun.dat" and "config.txt"
StartrunDat == <<115, 116, 97, 114, 116, 114, 117, 110, 46, 100, 97, 116>>
UpperStartrunDat == <<83, 84, 65, 82, 84, 82, 85, 78, 46, 68, 65, 84>>
PrefixedStartrunDat == <<120>> \o StartrunDat
ConfigTxt == <<99, 111, 110, 102, 105, 103, 46, 116, 120, 116>>
UploadNames == {StartrunDat, UpperStartrunDat, PrefixedStartrunDat, ConfigTxt}

\* file_path.name.lower() and file.endswith(...)
LowerName(name) == [i \in 1..Len(name) |-> IF name[i] \in 65..90 THEN name[i] + 32 ELSE name[i]]
EndsWith(name, suffix) == Len(name) >= Len(suffix) /\ SubSeq(name, Len(name) - Len(suffix) + 1, Len(name)) = suffix

\* the file name test of on_file_received
NameMatchesMutant(server, name) == TRUE
NameMatches(server, name) == IF server = "app" THEN LowerName(name) = StartrunDat ELSE EndsWith(name, StartrunDat)

\* session.query(Device).filter(Device.name == device_name,
\*                             Device.vendor == 'zte').first()
FindZteDevice(device_name) ==
    LET found == {d \in RelayDevices :
                    Devices[d].vendor = "zte" /\ DeviceNames[d] = device_name}
    IN  IF found = {} THEN None ELSE <<CHOOSE d \in found : TRUE>>

\* what a call of on_file_received did with an upload; found is the device
\* the folder name resolved to
Handled(up, server, outcome) ==
    [seq |-> up.seq, outcome |-> outcome, name |-> up.name, server |-> server,
     folder |-> up.folder, device |-> up.device,
     found |-> IF outcome \in {"ignored", "logged"} THEN None ELSE FindZteDevice(up.folder)]

\* removed: the folders under zte/ in which the FTP handler has removed a file
IdleIngest == [n |-> 0, pending |-> {}, files |-> {}, log |-> <<>>, removed |-> {}]

\* str(e) of the AttributeError of storage.store_backup(...): StorageManager
\* has no such method
StoreBackupError ==
    <<"'StorageManager'", "object", "has", "no", "attribute", "'store_backup'">>

\* the row _process_zte_backup adds, as its except branch leaves it
IngestHistory(d) ==
    [CreateBackupHistory(d, "ftp_ingestion") EXCEPT
        !.backup_command = None, !.status = "failed", !.completed = TRUE,
        !.error_message = <<StoreBackupError>>]

\* a device finishes uploading a file into one of its drop folders; the FTP
\* server will call on_file_received for it
FtpStore(d) ==
    /\ ingest.n < MaxUploads
    /\ \E folder \in DropFolders(d), name \in UploadNames, b \in RelayBytes :
         LET up == [device |-> d, folder |-> folder, name |-> name, data |-> b,
                    seq |-> ingest.n + 1]
         IN  /\ ingest' = [ingest EXCEPT
                              !.n = @ + 1,
                              !.pending = @ \cup {up},
                              !.files = {x \in @ : x.folder # folder \/ x.name # name}
                                            \cup {up}]
             /\ inbox' = IF folder = ToString(d) /\ name = StartrunDat
                         THEN [inbox EXCEPT ![d] = <<File(b, <<>>)>>]
                         ELSE inbox
    /\ UNCHANGED <<clock, db_session, storeVars, bd, history, devstatus, calls, uploads, env, poll>>

\* on_file_received(file) of the server, with _process_zte_backup: a file
\* whose name fails the test is ignored; the standalone server logs the
\* others; the application's handler looks the
\* folder up as a device name, adds a history row (flush() raises when the
\* database enforces the NOT NULL columns the row leaves unset), calls
\* storage.store_backup, which does not exist, marks the row failed and
\* removes the file
OnFileReceived(server, seq) ==
    /\ \E x \in ingest.pending : x.seq = seq
    /\ LET up      == CHOOSE x \in ingest.pending : x.seq = seq
           device  == FindZteDevice(up.folder)
           handled == [ingest EXCEPT !.pending = @ \ {up}]
       IN  IF ~NameMatches(server, up.name)
           THEN /\ ingest' = [handled EXCEPT !.log = Append(@, Handled(up, server, "ignored"))]
                /\ UNCHANGED <<history, devstatus>>
           ELSE IF server = "standalone"
           THEN /\ ingest' = [handled EXCEPT !.log = Append(@, Handled(up, server, "logged"))]
                /\ UNCHANGED <<history, devstatus>>
           ELSE IF device = None
           THEN /\ ingest' = [handled EXCEPT !.log = Append(@, Handled(up, server, "no_device"))]
                /\ UNCHANGED <<history, devstatus>>
           ELSE \/ /\ ingest' = [handled EXCEPT
                                    !.log = Append(@, Handled(up, server, "flush_raised"))]
                   /\ UNCHANGED <<history, devstatus>>
                \/ /\ ingest' = [handled EXCEPT
                                    !.log = Append(@, Handled(up, server, "store_failed")),
                                    !.files = @ \ {up},
                                    !.removed = @ \cup {up.folder}]
                   /\ history' = Append(history, IngestHistory(device[1]))
                   /\ devstatus' = UpdateDeviceStatus(devstatus, device[1], "failed")
    /\ UNCHANGED <<clock, db_session, storeVars, bd, calls, inbox, uploads, env, poll>>

Handle == \E server \in FtpServers, seq \in 1..MaxUploads : OnFileReceived(server, seq)

Init ==
    /\ clock = 0
    /\ fs = <<>>
    /\ sv = [t \in Threads |-> IdleSave]
    /\ nSave = 0
    /\ saveLog = {}
    /\ nTamper = 0
    /\ bd = [t \in Threads |-> <<>>]
    /\ history = <<>>
    /\ devstatus = [d \in DOMAIN Devices |-> None]
    /\ calls = <<>>
    /\ inbox = [d \in DOMAIN Devices |-> None]
    /\ uploads = {}
    /\ env = None
    /\ ingest = IdleIngest
    /\ db_session = None
    /\ poll = IdlePoll

NextStore ==
    \/ Tick(MaxTicks)
    \/ \E t \in Threads : StoreSave(t)
    \/ \E t \in Threads : SaveStep(t, AllWrites)
    \/ \E t \in Threads : StoreSaveDone(t)

SpecStore == Init /\ [][NextStore]_vars

NextPoll ==
    \/ PollStart
    \/ PollCheck
    \/ PollSettle
    \/ PollSleep
    \/ UploadBegins
    \/ UploadCompletes

\* the polling thread keeps running
SpecPoll == Init /\ [][NextPoll]_vars /\ WF_vars(PollLoop)

\* the poll loop next to uploads that arrive block by block or break off
NextUpload ==
    \/ NextPoll
    \/ UploadChunk
    \/ UploadAborted

SpecUpload == Init /\ [][NextUpload]_vars /\ WF_vars(PollLoop)

NextIngest ==
    \/ \E d \in RelayDevices : FtpStore(d)
    \/ \E server \in FtpServers, seq \in 1..MaxUploads : OnFileReceived(server, seq)

\* the FTP server calls the handler for every completed upload
SpecIngest == Init /\ [][NextIngest]_vars /\ WF_vars(Handle)

Worker == "w1"

\* os.remove of the stale file succeeds / may raise
NoFaults == {FALSE}
RemoveFaults == BOOLEAN

\* the collector with inline devices and a relay device whose upload comes
\* while the attempt waits for it, or never

Next ==
    \/ Tick(MaxCollectTicks)
    \/ \E d \in DOMAIN Devices : BackupDevice(Worker, d, MaxCalls)
    \/ BdStart(Worker)
    \/ InlineBackup(Worker)
    \/ ZtePrecheck(Worker, NoFaults)
    \/ ZteSession(Worker)
    \/ \E u \in Uploads(MaxCalls) : PromptUpload(u)
    \/ ZtePoll(Worker)
    \/ BdAfterBackup(Worker)
    \/ SaveStep(Worker, FirstWrite)
    \/ BdAfterSave(Worker)
    \/ BdReturn(Worker)

Spec == Init /\ [][Next]_vars

\* every write of save_backup succeeds
NoWriteFaults == {}

\* one caller of the StorageManager, saving and reading in any order
NextReads ==
    \/ Tick(MaxTicks)
    \/ StoreSave(Worker)
    \/ SaveStep(Worker, FirstWrite)
    \/ StoreSaveDone(Worker)
    \/ \E op \in ReadOps : StoreRead(Worker, op)

SpecReads == Init /\ [][NextReads]_vars

\* the collector with a relay device whose upload may come at any time after
\* the command, and a drop location whose stale file may resist removal

NextRelay ==
    \/ Tick(MaxCollectTicks)
    \/ \E d \in RelayDevices : BackupDevice(Worker, d, MaxCalls)
    \/ BdStart(Worker)
    \/ ZtePrecheck(Worker, RemoveFaults)
    \/ ZteSession(Worker)
    \/ \E u \in Uploads(MaxCalls) : DeviceUpload(u)
    \/ ZtePoll(Worker)
    \/ BdAfterBackup(Worker)
    \/ SaveStep(Worker, NoWriteFaults)
    \/ BdAfterSave(Worker)
    \/ BdReturn(Worker)

SpecRelay == Init /\ [][NextRelay]_vars

\* one caller thread that keeps running, with an inline device that asks for
\* privilege elevation and a relay device, every adapter outcome and a store
\* whose first write may fail
ReturnDevices == {1, 2}

Run ==
    \/ BdStart(Worker)
    \/ InlineBackup(Worker)
    \/ ZtePrecheck(Worker, NoFaults)
    \/ ZteSession(Worker)
    \/ ZtePoll(Worker)
    \/ BdAfterBackup(Worker)
    \/ SaveStep(Worker, FirstWrite)
    \/ BdAfterSave(Worker)
    \/ BdReturn(Worker)

NextReturn ==
    \/ Tick(MaxCollectTicks)
    \/ \E d \in ReturnDevices : BackupDevice(Worker, d, MaxCalls)
    \/ \E u \in Uploads(MaxCalls) : PromptUpload(u)
    \/ Run

SpecReturn == Init /\ [][NextReturn]_vars /\ WF_vars(Run)

\* Device.is_active of the rows, and the rows the query of
\* backup_all_devices returns: filter(Device.is_active == True).all(), in
\* the order of the primary key
IsActive == [d \in DOMAIN Devices |-> d \in {1, 4, 6}]
ActiveDevices == SelectSeq([d \in DOMAIN Devices |-> d], LAMBDA d : IsActive[d])

\* one pass of the loop body after backup_device: results['results'].append
\* and the two counters
CountResultMutant(results, result) == [results EXCEPT !.results = Append(@, result), !.success = IF result.success THEN @ + 1 ELSE @]
CountResult(results, result) == [results EXCEPT !.results = Append(@, result), !.success = IF result.success THEN @ + 1 ELSE @, !.failed = IF result.success THEN @ ELSE @ + 1]

RECURSIVE CountResults(_, _)
CountResults(results, returned) ==
    IF returned = <<>> THEN results
    ELSE CountResults(CountResult(results, Head(returned)), Tail(returned))

\* the dictionary backup_all_devices has built after the calls that have
\* returned so far; it is what the method returns once the loop is through
BackupAllResults ==
    CountResults([total |-> Len(ActiveDevices), success |-> 0, failed |-> 0,
                  results |-> <<>>],
                 [i \in {j \in 1..Len(calls) : calls[j].returned # None} |->
                     calls[i].returned[1]])

\* backup_all_devices of a collector that has a session: the loop calls
\* backup_device for the next device of the query when the call before it
\* has returned
BackupAllDevices(t) ==
    /\ bd[t] = <<>>
    /\ sv[t].pc = "idle"
    /\ Len(calls) < Len(ActiveDevices)
    /\ bd' = [bd EXCEPT ![t] = <<NewFrame(Len(calls) + 1, ActiveDevices[Len(calls) + 1],
                                          TRUE, "manual")>>]
    /\ calls' = Append(calls, [thread |-> t, device |-> ActiveDevices[Len(calls) + 1],
                               attempts |-> <<>>, returned |-> None,
                               fs_before |-> fs, fs_after |-> None])
    /\ db_session' = GetCollector(db_session, <<1>>)
    /\ UNCHANGED <<clock, poll, storeVars, history, devstatus, relayVars>>

RunInline ==
    \/ BdStart(Worker)
    \/ InlineBackup(Worker)
    \/ BdAfterBackup(Worker)
    \/ SaveStep(Worker, FirstWrite)
    \/ BdAfterSave(Worker)
    \/ BdReturn(Worker)

NextAll ==
    \/ BackupAllDevices(Worker)
    \/ RunInline

\* the thread that runs backup_all_devices keeps running
SpecAll == Init /\ [][NextAll]_vars /\ WF_vars(NextAll)

\* a scheduler job thread and a request thread of the manual backup route,
\* both free to call backup_device for the same device, one call each
ConcDevices == {6, 7}

NextConc ==
    \/ \E t \in Threads, d \in ConcDevices : BackupDevice(t, d, Cardinality(Threads))
    \/ \E t \in Threads : BdStart(t)
    \/ \E t \in Threads : InlineBackup(t)
    \/ \E t \in Threads : BdAfterBackup(t)
    \/ \E t \in Threads : SaveStep(t, NoWriteFaults)
    \/ \E t \in Threads : BdAfterSave(t)
    \/ \E t \in Threads : BdReturn(t)

SpecConc == Init /\ [][NextConc]_vars

(***************************************************************************)
(* On-disk corruption: something outside the program rewrites or removes   *)
(* a stored file                                                           *)
(***************************************************************************)
TamperBytes == {<<98>>, <<255>>}

TamperContent ==
    /\ nTamper < MaxTampers
    /\ nTamper' = nTamper + 1
    /\ \E dir \in DOMAIN fs, b \in TamperBytes :
         /\ fs[dir].config # None
         /\ fs[dir].config[1].data # b
         /\ fs' = [fs EXCEPT ![dir].config = <<[@[1] EXCEPT !.data = b]>>]
    /\ UNCHANGED <<clock, sv, nSave, saveLog, collVars>>

RemoveContent ==
    /\ nTamper < MaxTampers
    /\ nTamper' = nTamper + 1
    /\ \E dir \in DOMAIN fs :
         /\ fs[dir].config # None
         /\ fs' = [fs EXCEPT ![dir].config = None]
    /\ UNCHANGED <<clock, sv, nSave, saveLog, collVars>>

RemoveChecksum ==
    /\ nTamper < MaxTampers
    /\ nTamper' = nTamper + 1
    /\ \E dir \in DOMAIN fs :
         /\ fs[dir].checksum # None
         /\ fs' = [fs EXCEPT ![dir].checksum = None]
    /\ UNCHANGED <<clock, sv, nSave, saveLog, collVars>>

\* one caller at a time next to the outside interference
NextTamper ==
    \/ Tick(MaxTicks)
    \/ StoreSave("w1")
    \/ SaveStep("w1", AllWrites)
    \/ StoreSaveDone("w1")
    \/ TamperContent
    \/ RemoveContent
    \/ RemoveChecksum

SpecTamper == Init /\ [][NextTamper]_vars

(***************************************************************************)
(* Claims about the store                                                  *)
(***************************************************************************)
Succeeded == {e \in saveLog : e.result.success}

SameTriple(e1, e2) ==
    /\ e1.args.vendor = e2.args.vendor
    /\ e1.args.device_id = e2.args.device_id
    /\ TimestampStr(e1.args.timestamp) = TimestampStr(e2.args.timestamp)

\* C2: of two save_backup calls for the same vendor, device id and second, in
\* any interleaving, at most one returns success, and when one does the other
\* returns success=false with the immutability-violation error.
C2_AtMostOneSaveSucceeds ==
    \A e1, e2 \in saveLog :
        (e1.call # e2.call /\ SameTriple(e1, e2)) =>
            /\ ~(e1.result.success /\ e2.result.success)
            /\ e1.result.success =>
                  (~e2.result.success /\ e2.result.error = ImmutabilityError)

\* two calls a sub-second apart in the same second: one stored, one rejected
C2_Witness ==
    \E e1, e2 \in saveLog :
        /\ e1.call # e2.call /\ SameTriple(e1, e2)
        /\ e1.args.timestamp # e2.args.timestamp
        /\ e1.result.success
        /\ e2.result.error = ImmutabilityError

\* C3: a save_backup call that finds its directory already present fails
\* with the immutability error in that very step and changes no stored file.
C3_CollisionLeavesArtifactUntouched ==
    [][\A t \in Threads :
         (sv[t].pc = "mkdir" /\ sv'[t] # sv[t] /\ SaveDir(sv[t]) \in DOMAIN fs) =>
            /\ sv'[t].pc = "ret"
            /\ ~sv'[t].result.success
            /\ sv'[t].result.error = ImmutabilityError
            /\ fs' = fs]_vars

\* a rejected second call next to the complete first artifact
C3_Witness ==
    \E e1, e2 \in saveLog :
        /\ e1.call # e2.call /\ e1.dir = e2.dir
        /\ e1.result.success
        /\ e2.result.error = ImmutabilityError
        /\ fs[e1.dir].config[1].data = TextFileBytes(e1.args.config_output)
        /\ fs[e1.dir].metadata # None
        /\ fs[e1.dir].checksum[1].data.digest = e1.result.checksum[1]

\* C4: get_backup on the path a successful save_backup returned gives back
\* the config_output that was saved.
C4_RoundTrip ==
    \A e \in Succeeded :
        GetBackupResult(fs, e.result.file_path[1]) =
            [kind |-> "text", text |-> e.args.config_output]

Intact(e) ==
    /\ fs[e.dir].config # None
    /\ fs[e.dir].checksum # None
    /\ fs[e.dir].config[1].data = TextFileBytes(e.args.config_output)

\* C5: for a saved artifact verify_checksum is true while the stored files
\* are as written, false once the content bytes differ, and false when the
\* content file or the checksum record is missing.
C5_VerifyChecksum ==
    \A e \in Succeeded :
        LET ok == VerifyChecksumResult(fs, e.result.file_path[1])
        IN  /\ Intact(e) => ok
            /\ (fs[e.dir].config = None \/ fs[e.dir].checksum = None) => ~ok
            /\ (fs[e.dir].config # None
                  /\ fs[e.dir].config[1].data # TextFileBytes(e.args.config_output))
                 => ~ok

\* one artifact intact, one with rewritten content, one with a file removed
C5_Witness ==
    /\ \E e \in Succeeded : Intact(e) /\ Len(e.args.config_output) > 0
    /\ \E e \in Succeeded : /\ fs[e.dir].config # None
                             /\ fs[e.dir].checksum # None
                             /\ ~Intact(e)

C5_WitnessMissing ==
    \E e \in Succeeded : fs[e.dir].checksum = None /\ fs[e.dir].config # None

(***************************************************************************)
(* Claims about the collector                                              *)
(***************************************************************************)
CallIds == 1..Len(calls)
Attempts(c) == calls[c].attempts
AttemptIds(c) == 1..Len(Attempts(c))
Returned(c) == calls[c].returned # None
Result(c) == calls[c].returned[1]
VendorOf(c) == Devices[calls[c].device].vendor

RECURSIVE Invocations(_)
Invocations(as) == IF as = <<>> THEN 0 ELSE Head(as).invoked + Invocations(Tail(as))

\* C1: one top-level backup_device call invokes adapter.backup() at most
\* 1 + MAX_RETRY times, the recursion never goes deeper than that, and an
\* attempt started as a retry is the last attempt of its call.
C1_AtMostOneRetry ==
    /\ \A c \in CallIds :
         /\ Invocations(Attempts(c)) <= 1 + MAX_RETRY
         /\ Len(Attempts(c)) <= 1 + MAX_RETRY
         /\ \A i \in AttemptIds(c) : Attempts(c)[i].is_retry => i = Len(Attempts(c))
    /\ \A t \in Threads : Len(bd[t]) <= 1 + MAX_RETRY

\* a call that has returned after its first attempt and its retry both failed
C1_Witness ==
    \E c \in CallIds :
        /\ Returned(c) /\ ~Result(c).success
        /\ Invocations(Attempts(c)) = 2
        /\ Attempts(c)[2].is_retry
        /\ Attempts(c)[2].adapter \in {"connect_error", "command_error"}

C7_PreconditionNotRetried ==
    \A c \in CallIds :
        (Attempts(c) # <<>> /\ Attempts(c)[1].precheck \in {"service", "password"}) =>
            /\ Len(Attempts(c)) = 1
            /\ \A i \in AttemptIds(c) : Attempts(c)[i].connects = 0

\* C8: when the capture succeeded and save_backup failed, the attempt's
\* history row is 'failed' with a "Storage error:" message, no further
\* attempt follows (the adapter ran once in that attempt), and the call
\* returns success=false carrying that message.
C8_StorageFailureNotRetried ==
    \A c \in CallIds : \A i \in AttemptIds(c) :
        LET a == Attempts(c)[i]
            h == history[a.hist]
        IN  a.save = "failed" =>
              /\ a.adapter = "ok" /\ a.invoked = 1
              /\ i = Len(Attempts(c))
              /\ h.status = "failed"
              /\ IsPrefix(StorageErrorPrefix, h.error_message)
              /\ Len(h.error_message) > Len(StorageErrorPrefix)
              /\ Returned(c) =>
                   /\ ~Result(c).success
                   /\ Result(c).file_path = None
                   /\ Result(c).error \in {h.error_message,
                                           FailedAfterRetryPrefix \o h.error_message}

\* a first attempt whose capture was fine and whose save was refused
C8_Witness ==
    \E c \in CallIds :
        /\ Returned(c)
        /\ Len(Attempts(c)) = 1
        /\ Attempts(c)[1].save = "failed"
        /\ Result(c).error = StorageErrorPrefix \o OsError

\* C9: for a device whose vendor is not in the table, or whose connection
\* type the vendor does not permit, no adapter is built or invoked, no
\* history row is written, nothing is retried, and the call returns
\* success=false with an error.
Rejected(d) ==
    \/ VendorConfig(Devices[d].vendor) = None
    \/ Devices[d].connection_type
          \notin VendorConfig(Devices[d].vendor)[1].connection_types

C9_RejectedWithoutAdapter ==
    \A c \in CallIds :
        Rejected(calls[c].device) =>
            /\ Attempts(c) = <<>>
            /\ \A t \in Threads : (bd[t] # <<>> /\ bd[t][1].call = c) => Len(bd[t]) = 1
            /\ \A i \in 1..Len(history) : history[i].device_id # calls[c].device
            /\ Returned(c) =>
                 /\ ~Result(c).success
                 /\ Result(c).error # None
                 /\ Result(c).history_id = None

\* both kinds of rejected device have been turned away
C9_Witness ==
    \E c \in CallIds :
        /\ Returned(c)
        /\ Devices[calls[c].device].vendor = "mikrotik"
        /\ Rejected(calls[c].device)
        /\ Result(c).error = UnsupportedConnection("telnet", "mikrotik")

C9_WitnessVendor ==
    \E c \in CallIds :
        /\ Returned(c)
        /\ VendorConfig(VendorOf(c)) = None
        /\ Result(c).error = UnsupportedVendor(VendorOf(c))

\* the artifacts stored by the attempts of call c
ArtifactsOf(c) ==
    {e \in Succeeded : \E i \in AttemptIds(c) : Attempts(c)[i].save_call = e.call}

\* C10: when the first attempt fails to connect or authenticate and the
\* retry succeeds, the call returns success=true, exactly one artifact was
\* stored by the call, and the history row the call created has
\* retry_count = 1.
C10_RetrySucceeds ==
    \A c \in CallIds :
        (/\ Returned(c)
         /\ Len(Attempts(c)) = 2
         /\ Attempts(c)[1].adapter = "connect_error"
         /\ Attempts(c)[2].save = "ok") =>
            /\ Result(c).success
            /\ Cardinality(ArtifactsOf(c)) = 1
            /\ \A e \in ArtifactsOf(c) :
                 /\ Result(c).file_path = e.result.file_path
                 /\ e.dir \in DOMAIN fs
            /\ history[Attempts(c)[1].hist].retry_count = 1
            /\ \A i \in AttemptIds(c) : history[Attempts(c)[i].hist].retry_count <= 1

\* authentication failed first, the retry produced the artifact
C10_Witness ==
    \E c \in CallIds :
        /\ Returned(c) /\ Result(c).success
        /\ Len(Attempts(c)) = 2
        /\ history[Attempts(c)[1].hist].error_message = None
        /\ history[Attempts(c)[1].hist].retry_count = 1
        /\ Attempts(c)[1].adapter = "connect_error"
        /\ Attempts(c)[2].save = "ok"
        /\ Cardinality(ArtifactsOf(c)) = 1

\* C11: when every attempt of a call failed to connect or authenticate (the
\* first attempt and its retry), the call returns success=false with the
\* retry's error, and the storage tree at the return is the tree at the
\* start of the call.
C11_BothAttemptsFail ==
    \A c \in CallIds :
        (/\ Returned(c)
         /\ Attempts(c) # <<>>
         /\ \A i \in AttemptIds(c) : Attempts(c)[i].adapter = "connect_error") =>
            /\ Len(Attempts(c)) = 1 + MAX_RETRY
            /\ ~Result(c).success
            /\ Result(c).file_path = None
            /\ IsPrefix(FailedAfterRetryPrefix, Result(c).error)
            /\ SubSeq(Result(c).error, Len(FailedAfterRetryPrefix) + 1,
                      Len(Result(c).error))
                  \in ConnectErrors(Devices[calls[c].device].ip_address)
            /\ ArtifactsOf(c) = {}
            /\ calls[c].fs_after = <<calls[c].fs_before>>

\* authentication failed on the first try and again on the retry
C11_Witness ==
    \E c \in CallIds :
        /\ Returned(c)
        /\ Len(Attempts(c)) = 2
        /\ \A i \in AttemptIds(c) : Attempts(c)[i].adapter = "connect_error"
        /\ Result(c).error =
              FailedAfterRetryPrefix \o AuthFailed(Devices[calls[c].device].ip_address)
        /\ history[Attempts(c)[1].hist].status = "failed"

\* C12: a _poll_for_file call always comes to an end, and when the file
\* never appeared at the drop location it returns no file once the elapsed
\* time has reached FTP_POLL_TIMEOUT and not later than one
\* FTP_POLL_INTERVAL past it.
C12_PollTerminates ==
    /\ [](poll.pc = "done" /\ ~poll.appeared =>
            /\ poll.result = None
            /\ Elapsed >= FTP_POLL_TIMEOUT
            /\ Elapsed <= FTP_POLL_TIMEOUT + FTP_POLL_INTERVAL)
    /\ [](poll.pc # "idle" => Elapsed <= FTP_POLL_TIMEOUT + FTP_POLL_INTERVAL)
    /\ (poll.pc # "idle" ~> poll.pc = "done")

\* a poll that returned empty-handed at the end of the budget
C12_Witness ==
    /\ poll.pc = "done"
    /\ ~poll.appeared
    /\ poll.result = None
    /\ Elapsed = FTP_POLL_TIMEOUT

\* C13: an attempt that ran out of its poll budget has its history row
\* completed with status 'timeout'.
C13_PollTimeoutRecordedAsTimeout ==
    \A c \in CallIds : \A i \in AttemptIds(c) :
        LET h == history[Attempts(c)[i].hist]
        IN  (Attempts(c)[i].adapter = "poll_timeout" /\ h.completed) =>
                h.status = "timeout"

\* C14: for a successful relay capture, the checksum backup_device returns
\* and the checksum stored with the artifact are the hash of the bytes of
\* the received drop-location file.
C14_ChecksumOfReceivedBytes ==
    \A c \in CallIds : \A i \in AttemptIds(c) :
        LET a == Attempts(c)[i]
        IN  (Returned(c) /\ Result(c).success /\ a.received # None /\ a.save = "ok") =>
                /\ Result(c).checksum = <<Sha256(a.received[1].data)>>
                /\ \A e \in ArtifactsOf(c) :
                     /\ e.result.checksum = <<Sha256(a.received[1].data)>>
                     /\ e.dir \in DOMAIN fs
                     /\ fs[e.dir].checksum # None =>
                          fs[e.dir].checksum[1].data.digest = Sha256(a.received[1].data)

\* C15: once backup() of an adapter has returned, on whatever path, the
\* adapter holds no open session.
C15_NoSessionAfterBackup ==
    \A t \in Threads : \A k \in 1..Len(bd[t]) :
        bd[t][k].backup_result # None =>
            /\ bd[t][k].adapter # None
            /\ ~bd[t][k].adapter[1].connection

\* backup() returned after the command failed in an open session
C15_Witness ==
    \E t \in Threads :
        /\ bd[t] # <<>>
        /\ Top(t).pc = "after"
        /\ Top(t).backup_result # None
        /\ ~Top(t).backup_result[1].success
        /\ CurAttempt(Top(t).call).adapter = "command_error"
        /\ CurAttempt(Top(t).call).sessions = 1
        /\ ~Top(t).adapter[1].connection

\* C19: no relay attempt is polling its drop location while the adapter's
\* device session is open.
C19_SessionClosedWhilePolling ==
    \A t \in Threads : \A k \in 1..Len(bd[t]) :
        bd[t][k].pc = "zte_poll" => ~bd[t][k].adapter[1].connection

\* a relay attempt that opened a session, sent its command and now polls
C19_Witness ==
    \E t \in Threads :
        /\ bd[t] # <<>>
        /\ Top(t).pc = "zte_poll"
        /\ CurAttempt(Top(t).call).sessions = 1
        /\ Len(CurAttempt(Top(t).call).sent) = 1
        /\ ~Top(t).adapter[1].connection

\* C16: a backup_device call for a device never starts while an earlier call
\* for the same device has not returned.
C16_OneCallPerDevice ==
    \A t1, t2 \in Threads :
        (t1 # t2 /\ bd[t1] # <<>> /\ bd[t2] # <<>>) =>
            bd[t1][1].device # bd[t2][1].device

\* C17: the file a relay attempt accepts is never a file that was at the
\* drop location before the attempt started.
C17_StaleFileNeverAccepted ==
    \A c \in CallIds : \A i \in AttemptIds(c) :
        LET a == Attempts(c)[i]
        IN  (a.received # None /\ a.stale # None) => a.received # a.stale

\* C18: every file a relay attempt accepts was uploaded in answer to the
\* command this same attempt sent.
C18_AcceptedFileIsOwn ==
    \A c \in CallIds : \A i \in AttemptIds(c) :
        Attempts(c)[i].received # None => Attempts(c)[i].received[1].by = <<c, i>>

\* C20: whenever an upload of startrun.dat completes in a drop folder of a
\* registered relay device, an artifact for that device is eventually saved.
C20_UploadEventuallySaved ==
    \A d \in RelayDevices :
        (\E up \in ingest.pending : up.device = d /\ up.name = StartrunDat) ~>
            (\E e \in Succeeded : e.args.device_id = d)

\* C21: the history records of an attempt are written through the database
\* session of its own call, whatever calls for other devices run, fail or
\* complete at the same time.
C21_OwnSession ==
    \A c \in CallIds :
        (\A c2 \in CallIds : c2 # c => calls[c2].device # calls[c].device) =>
            \A i \in AttemptIds(c) : history[Attempts(c)[i].hist].session = <<c>>

\* the keys of the dictionary backup_device returns
ResultKeys == {"success", "history_id", "file_path", "checksum", "error", "device_id"}

\* C22: whatever the adapter and the store do, a backup_device call that has
\* started returns, and what it returns is a result dictionary.
C22_AlwaysReturnsResult ==
    /\ [](\A c \in CallIds :
            Returned(c) => /\ DOMAIN Result(c) = ResultKeys
                           /\ Result(c).success \in BOOLEAN
                           /\ Result(c).device_id = calls[c].device)
    /\ \A c \in 1..MaxCalls :
         (c \in CallIds /\ ~Returned(c)) ~> (c \in CallIds /\ Returned(c))

\* a call returned after the store raised inside save_backup
C22_Witness ==
    \E c \in CallIds :
        /\ Returned(c)
        /\ ~Result(c).success
        /\ \E i \in AttemptIds(c) : Attempts(c)[i].save = "failed"
        /\ IsPrefix(StorageErrorPrefix, Result(c).error)
        /\ bd[calls[c].thread] = <<>>

WellFormedResult(r) ==
    /\ r.success <=> (r.file_path # None /\ r.checksum # None /\ r.error = None)
    /\ ~r.success <=> (r.error # None /\ r.file_path = None /\ r.checksum = None)

\* C23: in every result backup_device returns, success is true exactly when
\* file_path and checksum are set and error is not, and false exactly when
\* error is set and file_path and checksum are not.
C23_ResultWellFormed ==
    /\ \A c \in CallIds : Returned(c) => WellFormedResult(Result(c))
    /\ \A t \in Threads : \A k \in 1..Len(bd[t]) :
         bd[t][k].pc = "return" => WellFormedResult(bd[t][k].result)

\* the successful result of a retry, returned by the call that retried
C23_Witness ==
    \E c \in CallIds :
        /\ Returned(c)
        /\ Len(Attempts(c)) = 2
        /\ Result(c).success
        /\ Result(c).file_path # None
        /\ Result(c).checksum # None
        /\ Result(c).error = None
        /\ Result(c).history_id = <<Attempts(c)[2].hist>>

\* C24: no operation of the StorageManager modifies or removes an artifact
\* that was stored: its directory stays, with the three files as they are.
C24_ArtifactsNeverChange ==
    [][\A e \in Succeeded :
          /\ e \in {x \in saveLog' : x.result.success}
          /\ e.dir \in DOMAIN fs
          /\ e.dir \in DOMAIN fs'
          /\ fs'[e.dir] = fs[e.dir]]_vars

\* two artifacts are stored, and a read of the first one has returned its
\* content after the second was saved
C24_Witness ==
    /\ Cardinality(Succeeded) = 2
    /\ DOMAIN sv[Worker] = {"pc", "op", "result"}
    /\ sv[Worker].op = "get_backup"
    /\ sv[Worker].result.kind = "text"
    /\ \A e \in Succeeded : Intact(e)

\* the steps of a relay attempt that received its file or timed out
RelaySteps(last) ==
    <<"precondition_check", "inbox_cleared", "connected", "command_issued",
      "disconnected", "polling", last>>

\* step x comes before step y in steps
Before(steps, x, y) ==
    \E i, j \in 1..Len(steps) : i < j /\ steps[i] = x /\ steps[j] = y

Has(steps, x) == \E i \in 1..Len(steps) : steps[i] = x

\* C25: a relay attempt that received its file or timed out went through
\* precondition check, inbox cleared, connected, command issued,
\* disconnected, polling and then received or timed out, in this order; no
\* attempt issues the command before the inbox is cleared, or polls before
\* the command is issued.
C25_RelayStepOrder ==
    \A c \in CallIds : \A i \in AttemptIds(c) :
        LET a == Attempts(c)[i]
        IN  /\ a.adapter = "ok" /\ a.received # None => a.steps = RelaySteps("received")
            /\ a.adapter = "poll_timeout" => a.steps = RelaySteps("timed_out")
            /\ Has(a.steps, "command_issued") =>
                 Before(a.steps, "inbox_cleared", "command_issued")
            /\ Has(a.steps, "polling") => Before(a.steps, "command_issued", "polling")

\* C26: the poll accepts the target file only from the settle wait it began
\* on seeing the file, one settle interval later and with a size above
\* zero; a file of size zero after the settle wait is not accepted and the
\* loop goes on, and the poll gives up only when the budget is used up.
C26_AcceptAfterSettle ==
    /\ [][/\ (poll.pc # "settle" /\ poll'.pc = "settle") =>
               (poll.pc = "check" /\ inbox[PollDevice] # None)
          /\ (poll.pc # "done" /\ poll'.pc = "done" /\ poll'.result = <<"startrun.dat">>) =>
               /\ poll.pc = "settle"
               /\ poll'.now = poll.now + SETTLE_SECONDS
               /\ inbox[PollDevice] # None
               /\ Len(inbox[PollDevice][1].data) > 0
          /\ (/\ poll.pc = "settle" /\ poll'.pc # "settle"
              /\ inbox[PollDevice] # None
              /\ Len(inbox[PollDevice][1].data) = 0) =>
               (poll'.pc = "sleep" /\ poll'.result = None)]_vars
    /\ [](poll.pc = "done" /\ poll.result = None => Elapsed >= FTP_POLL_TIMEOUT)

\* the file was empty after the first settle wait and was accepted after the
\* second one
C26_Witness ==
    /\ poll.pc = "done"
    /\ poll.result = <<"startrun.dat">>
    /\ Elapsed = 2 * SETTLE_SECONDS + FTP_POLL_INTERVAL
    /\ Len(inbox[PollDevice][1].data) > 0

\* C27: the file the poll accepts is a file whose upload is complete.
C27_AcceptedFileComplete ==
    poll.accepted # None => poll.accepted[1].complete

C29_FolderResolvesToUploader ==
    \A i \in 1..Len(ingest.log) :
        /\ ingest.log[i].folder = ToString(ingest.log[i].device)
        /\ ingest.log[i].name = StartrunDat
        /\ ingest.log[i].outcome \in {"no_device", "flush_raised", "store_failed"}
        => ingest.log[i].found = <<ingest.log[i].device>>

\* C30: at a device's drop location only one party removes or consumes
\* files: the FTP handler never removes a file where the adapter's poll
\* consumes one, and the file the poll has seen is not deleted before the
\* poll reads it.
C30_OnePartyPerDropLocation ==
    /\ ~(ToString(PollDevice) \in ingest.removed /\ poll.accepted # None)
    /\ poll.result # <<"FileNotFoundError">>

\* backup_all_devices has gone through its loop
BackupAllReturned ==
    /\ Len(calls) = Len(ActiveDevices)
    /\ \A c \in CallIds : calls[c].returned # None

\* C31: backup_all_devices calls backup_device once for every active device,
\* one call after the other and for no inactive device; a failed device does
\* not stop the loop, and in what it returns total = success + failed = the
\* number of results.
C31_BackupAllDevices ==
    /\ [](/\ \A c \in CallIds : IsActive[calls[c].device]
          /\ \A c, c2 \in CallIds : calls[c].device = calls[c2].device => c = c2
          /\ \A c \in CallIds : c < Len(calls) => calls[c].returned # None
          /\ BackupAllReturned =>
               /\ {calls[c].device : c \in CallIds} = {d \in DOMAIN Devices : IsActive[d]}
               /\ BackupAllResults.total = BackupAllResults.success + BackupAllResults.failed
               /\ BackupAllResults.total = Len(BackupAllResults.results)
               /\ \A c \in CallIds : BackupAllResults.results[c] = calls[c].returned[1])
    /\ <>BackupAllReturned

\* the loop is through, a device failed and a later device succeeded
C31_Witness ==
    /\ BackupAllReturned
    /\ \E c, c2 \in CallIds :
         /\ c < c2
         /\ ~calls[c].returned[1].success
         /\ calls[c2].returned[1].success

\* the relay user and the relay passwords
RelayCredentials == {FtpUser} \cup FtpPasswords
HasCredential(command) ==
    command # None /\ \E k \in 1..Len(command) : command[k] \in RelayCredentials

\* C32: the backup_command written to a metadata document or to a history
\* record never contains the relay user or the relay password.
C32_NoCredentialPersisted ==
    /\ \A h \in 1..Len(history) : ~HasCredential(history[h].backup_command)
    /\ \A dir \in DOMAIN fs :
         fs[dir].metadata # None => ~HasCredential(fs[dir].metadata[1].data.backup_command)

\* a relay attempt sent the command with the password, and its capture is
\* stored
C32_Witness ==
    \E c \in CallIds : \E i \in AttemptIds(c) :
        /\ \E k \in 1..Len(Attempts(c)[i].sent) : HasCredential(Attempts(c)[i].sent[k])
        /\ Attempts(c)[i].save = "ok"
        /\ \E dir \in DOMAIN fs : fs[dir].metadata # None

\* the attempts that stored an artifact, with the store's record of the save
StoredAttempts ==
    {<<c, i, e>> \in CallIds \X (1..(1 + MAX_RETRY)) \X Succeeded :
        i \in AttemptIds(c) /\ Attempts(c)[i].save_call = e.call}

\* C33: the command recorded in a stored artifact's metadata document and in
\* its history record is the command the adapter sent to the device during
\* that capture; for the relay vendor, the adapter's fixed command without
\* the credentials.
C33_RecordedCommandIsSent ==
    \A x \in StoredAttempts :
        LET a    == Attempts(x[1])[x[2]]
            e    == x[3]
            used == IF Lower(VendorOf(x[1])) \in RelayVendors
                    THEN VENDOR_ADAPTERS[Lower(VendorOf(x[1]))].backup_command
                    ELSE a.sent[1]
        IN  /\ history[a.hist].backup_command = used
            /\ e.dir \in DOMAIN fs /\ fs[e.dir].metadata # None =>
                  fs[e.dir].metadata[1].data.backup_command = used

\* C34: the extension of a stored content file is the output extension the
\* adapter of the device's vendor declares.
C34_ExtensionIsAdapters ==
    \A x \in StoredAttempts :
        /\ x[3].result.file_path[1].name =
              ConfigFilename(VENDOR_ADAPTERS[Lower(VendorOf(x[1]))].output_extension)
        /\ x[3].dir \in DOMAIN fs => fs[x[3].dir].config # None

\* C35: when a top-level backup_device call has returned, every history
\* record its attempts created has a terminal status and a completion time.
C35_NoRecordLeftRunning ==
    \A c \in CallIds :
        Returned(c) =>
            \A i \in AttemptIds(c) :
                /\ history[Attempts(c)[i].hist].status \in {"success", "failed", "timeout"}
                /\ history[Attempts(c)[i].hist].completed

\* the save_backup calls that are between their mkdir and their return
SavesUnderWay == {t \in Threads : sv[t].pc \in {"config", "metadata", "checksum"}}

\* C36: a save_backup call that returned success=false has left no artifact
\* directory behind, and a save that is rejected as an immutability
\* violation collides with a stored artifact or a save under way, never with
\* what a failed save left.
C36_FailedSaveLeavesNothing ==
    /\ \A e \in saveLog :
         (~e.result.success /\ e.result.error # ImmutabilityError /\ e.dir \in DOMAIN fs) =>
            \/ \E e2 \in Succeeded : e2.dir = e.dir
            \/ \E t \in SavesUnderWay : SaveDir(sv[t]) = e.dir /\ sv[t].call # e.call
    /\ \A e \in saveLog :
         e.result.error = ImmutabilityError =>
            \/ \E e2 \in Succeeded : e2.dir = e.dir
            \/ \E t \in SavesUnderWay : SaveDir(sv[t]) = e.dir

\* C37: a call that backup_device rejects at validation creates no history
\* record, has the store write nothing, and leaves the device's last backup
\* status as it was.
C37_RejectionChangesNothing ==
    \A c \in CallIds :
        Rejected(calls[c].device) =>
            /\ \A h \in 1..Len(history) : history[h].device_id # calls[c].device
            /\ \A e \in saveLog : e.args.device_id # calls[c].device
            /\ \A t \in Threads :
                 (bd[t] # <<>> /\ bd[t][1].call = c) => sv[t].pc = "idle"
            /\ devstatus[calls[c].device] = None
            /\ Returned(c) => calls[c].fs_after = <<calls[c].fs_before>>

\* a rejected call has returned
C37_Witness ==
    \E c \in CallIds :
        /\ Rejected(calls[c].device)
        /\ Returned(c)
        /\ Result(c).error \in {UnsupportedVendor(VendorOf(c)),
                                UnsupportedConnection(
                                    Devices[calls[c].device].connection_type, VendorOf(c))}
        /\ calls[c].fs_after = <<fs>>

\* C38: when a top-level backup_device call for a device that passes
\* validation returns, the device's last backup status is 'success' if and
\* only if the returned result has success=true.
C38_StatusMatchesResult ==
    [][\A c \in CallIds :
         (~Returned(c) /\ calls'[c].returned # None /\ ~Rejected(calls[c].device)) =>
            (devstatus'[calls[c].device] = <<"success">>
                <=> calls'[c].returned[1].success)]_vars

====
